---- MODULE Spec2Model ----
(***************************************************************************)
(* A model of the silicium x86_64 crate: the address value types           *)
(* (address.rs), the segment descriptor table (gdt.rs), the gate table     *)
(* (idt.rs), the interrupt entry/exit trampolines (idt.rs, cpu.rs), the    *)
(* context switch (cpu.rs), page entries, page tables and levels           *)
(* (paging.rs) and the interrupt flag helpers (irq.rs).                    *)
(*                                                                         *)
(* A u64 is kept at its full width as four 16-bit limbs, most significant  *)
(* first: <<bits 63..48, bits 47..32, bits 31..16, bits 15..0>>.  Every    *)
(* operation on it (and, not, shifts, checked addition) is computed on the *)
(* limbs, so a wrap, a truncation or a sign extension is what the machine  *)
(* computes.                                                               *)
(***************************************************************************)
EXTENDS Integers, Sequences, FiniteSets, TLC

VARIABLES
    \* ---- address.rs ----
    self,             \* the address value held: [ty, raw]
    last,             \* the call whose result the caller holds: [op, ty, recv, arg, kind, outcome, out, flag]
    overflow_checks,  \* build profile: is u64 `+`/`-` overflow checked (debug) or wrapping (release)
    nassign,          \* compound assignments applied to self since it was constructed
    \* ---- gdt.rs ----
    gdt,              \* Table::descriptors: slot -> Entry (a u64)
    gdt_register,     \* Table::register: [limit, base]
    gdtr,             \* the CPU's GDTR, as the last lgdt loaded it
    gdt_installed,    \* history: the slots a set_descriptor filled and no clear_entry cleared since
    gdt_owner,        \* history: for each slot, the set_descriptor call that wrote it last
                      \* if no clear_entry cleared it since
    gdt_calls,        \* calls made on the table
    glast,            \* the call whose result the caller holds
    \* ---- idt.rs: DescriptorFlags ----
    dflags,           \* the DescriptorFlags value being built (a u16)
    flast,            \* the last call on it: [op, arg, before, built]
    \* ---- idt.rs: Table ----
    idt,              \* Table::entries: vector -> Descriptor
    idt_register,     \* Table::register: [limit, base]
    idtr,             \* the CPU's IDTR, as the last lidt loaded it
    idt_configured,   \* history: the vectors passed to set_descriptor
    ilast,            \* the call whose result the caller holds
    \* ---- idt.rs: the interrupt trampolines ----
    pc,               \* where the CPU executes: [fn, at]
    regs,             \* the general-purpose registers and rsp
    mem,              \* the kernel stack: address -> 64-bit word
    msr,              \* the FS / GS / kernel-GS base registers
    cpu,              \* cs, ss, rip of the interrupted code, and the IF, DF, ZF flags
    transfer,         \* the transfer being served: the stub's vector, fault code and gate
    interrupted,      \* history: registers, bases and CPU state at the interruption
    swaps,            \* history: the swapgs executed by interrupt_enter / interrupt_exit
    nested,           \* history: how many transfers are being served above the first,
                      \* and where the last of them was delivered
    handled,          \* history: what the handler did: [ran, clobber, wrote_rip]
    \* ---- cpu.rs: switch ----
    sw,               \* the calls of switch: the operand registers the build chose,
                      \* the number of calls, the context that runs, the first caller
    \* ---- paging.rs ----
    pte,              \* a PageEntry: its u64
    elast,            \* the call on it whose result the caller holds
    want,             \* history: the address last set and the flags the flag
                      \* operations made so far amount to
    ptable,           \* a PageTable: index -> PageEntry
    tlast,            \* the call on it whose result the caller holds
    current,          \* a Level: where a walk of the hierarchy stands
    run,              \* history: the direction of the last step and how many steps
                      \* in a row went that way
    nsteps,           \* history: the number of next / prev calls made
    lvlast,           \* the next / prev call whose result the caller holds
    \* ---- irq.rs ----
    interrupts,       \* the interrupt flag of the CPU (RFLAGS bit 9)
    wstack,           \* the calls of without in progress, innermost last
    wlast             \* the call of without that returned last

addrVars == <<self, last, overflow_checks, nassign>>
gdtVars == <<gdt, gdt_register, gdtr, gdt_installed, gdt_owner, gdt_calls, glast>>

flagVars == <<dflags, flast>>
idtVars == <<idt, idt_register, idtr, idt_configured, ilast>>

intVars == <<pc, regs, mem, msr, cpu, transfer, interrupted, swaps, nested, handled, sw>>

pageVars == <<pte, elast, want, ptable, tlast>>

levelVars == <<current, run, nsteps, lvlast>>

irqVars == <<interrupts, wstack, wlast>>

vars == <<addrVars, gdtVars, flagVars, idtVars, intVars, pageVars, levelVars, irqVars>>

\* a step of one part of the crate leaves the state of the others alone
OnlyAddr == UNCHANGED <<gdtVars, flagVars, idtVars, intVars, pageVars, levelVars, irqVars>>
OnlyGdt == UNCHANGED <<addrVars, flagVars, idtVars, intVars, pageVars, levelVars, irqVars>>
OnlyFlags == UNCHANGED <<addrVars, gdtVars, idtVars, intVars, pageVars, levelVars, irqVars>>
OnlyIdt == UNCHANGED <<addrVars, gdtVars, flagVars, intVars, pageVars, levelVars, irqVars>>
OnlyInt == UNCHANGED <<addrVars, gdtVars, flagVars, idtVars, pageVars, levelVars, irqVars>>
OnlyPage == UNCHANGED <<addrVars, gdtVars, flagVars, idtVars, intVars, levelVars, irqVars>>
OnlyLevel == UNCHANGED <<addrVars, gdtVars, flagVars, idtVars, intVars, pageVars, irqVars>>
OnlyIrq == UNCHANGED <<addrVars, gdtVars, flagVars, idtVars, intVars, pageVars, levelVars>>

----------------------------------------------------------------------------
(* Bounds of the model. *)

\* compound assignments (+=, -=) applied in a row to one address value
MaxAssign == 1

\* the capacity N of the segment table Table<N>
GdtN == 8

\* calls made on one segment table
MaxGdtCalls == 3

----------------------------------------------------------------------------
(* 64-bit words as four 16-bit limbs. *)

LimbBase == 2 ^ 16

\* 16-bit bitwise and
RECURSIVE BitAnd16(_, _)
BitAnd16(a, b) ==
    IF a = 0 \/ b = 0 THEN 0
    ELSE (a % 2) * (b % 2) + 2 * BitAnd16(a \div 2, b \div 2)

\* 16-bit bitwise or
RECURSIVE BitOr16(_, _)
BitOr16(a, b) ==
    IF a = 0 THEN b
    ELSE IF b = 0 THEN a
    ELSE (IF a % 2 = 1 \/ b % 2 = 1 THEN 1 ELSE 0) + 2 * BitOr16(a \div 2, b \div 2)

\* word built from its limbs, most significant first
U64(h3, h2, h1, h0) == <<h3, h2, h1, h0>>

\* limb k of x, k = 0 the least significant; 0 outside the word
Limb(x, k) == IF k \in 0..3 THEN x[4 - k] ELSE 0

Zero64 == U64(0, 0, 0, 0)
Ones64 == U64(65535, 65535, 65535, 65535)
OfNat(n) == U64(0, 0, n \div LimbBase, n % LimbBase)

And64(a, b) == [i \in 1..4 |-> BitAnd16(a[i], b[i])]
Not64(a) == [i \in 1..4 |-> 65535 - a[i]]
Or64(a, b) == Not64(And64(Not64(a), Not64(b)))

\* logical shift right by n bits (n in 0..63)
Shr64(a, n) ==
    LET q == n \div 16
        r == n % 16
    IN  [i \in 1..4 |->
            LET k == 4 - i
            IN  (Limb(a, k + q) \div (2 ^ r))
                + (Limb(a, k + q + 1) % (2 ^ r)) * (2 ^ (16 - r))]

\* shift left by n bits (n in 0..63), the bits shifted out are lost
Shl64(a, n) ==
    LET q == n \div 16
        r == n % 16
    IN  [i \in 1..4 |->
            LET k == 4 - i
            IN  ((Limb(a, k - q) * (2 ^ r)) % LimbBase)
                + (Limb(a, k - q - 1) \div (2 ^ (16 - r)))]

\* arithmetic shift right of the word read as an i64
Sar64(a, n) ==
    IF a[1] >= 32768
    THEN Or64(Shr64(a, n), Not64(Shr64(Ones64, n)))
    ELSE Shr64(a, n)

\* a + b: the wrapped sum and whether it overflowed 64 bits
AddCarry64(a, b) ==
    LET s0 == a[4] + b[4]
        s1 == a[3] + b[3] + (s0 \div LimbBase)
        s2 == a[2] + b[2] + (s1 \div LimbBase)
        s3 == a[1] + b[1] + (s2 \div LimbBase)
    IN  [sum |-> U64(s3 % LimbBase, s2 % LimbBase, s1 % LimbBase, s0 % LimbBase),
         overflow |-> s3 >= LimbBase]

\* unsigned a <= b, and a < b
Le64(a, b) ==
    \/ a[1] < b[1]
    \/ a[1] = b[1] /\ a[2] < b[2]
    \/ a[1] = b[1] /\ a[2] = b[2] /\ a[3] < b[3]
    \/ a[1] = b[1] /\ a[2] = b[2] /\ a[3] = b[3] /\ a[4] <= b[4]
Lt64(a, b) == Le64(a, b) /\ a # b

\* a - b: the wrapped difference and whether it underflowed
SubBorrow64(a, b) ==
    [sum |-> AddCarry64(AddCarry64(a, Not64(b)).sum, OfNat(1)).sum,
     overflow |-> Lt64(a, b)]

\* u64::is_power_of_two: exactly one bit set
RECURSIVE PopCount16(_)
PopCount16(a) == IF a = 0 THEN 0 ELSE (a % 2) + PopCount16(a \div 2)
IsPowerOfTwo64(a) ==
    PopCount16(a[1]) + PopCount16(a[2]) + PopCount16(a[3]) + PopCount16(a[4]) = 1

\* u64::trailing_zeros
RECURSIVE TrailingZeros16(_)
TrailingZeros16(a) ==
    IF a = 0 THEN 16 ELSE IF a % 2 = 1 THEN 0 ELSE 1 + TrailingZeros16(a \div 2)
TrailingZeros64(a) ==
    IF a[4] # 0 THEN TrailingZeros16(a[4])
    ELSE IF a[3] # 0 THEN 16 + TrailingZeros16(a[3])
    ELSE IF a[2] # 0 THEN 32 + TrailingZeros16(a[2])
    ELSE 48 + TrailingZeros16(a[1])

----------------------------------------------------------------------------
(* address.rs: the Virtual and Physical address types.  A call returns a   *)
(* result record: outcome "ok" with the value out, outcome "err" with the  *)
(* rejected raw value (InvalidVirtual / InvalidPhysical), or outcome       *)
(* "panic" when the call aborts.                                           *)

Ok(v) == [outcome |-> "ok", out |-> v]
Err(v) == [outcome |-> "err", out |-> v]
Panic == [outcome |-> "panic", out |-> Zero64]

\* mutant of new_truncate: the shift back is logical (the i64 cast forgotten)
VirtualNewTruncate_Logical(addr) == Shr64(Shl64(addr, 16), 16)

\* Virtual::new_truncate: ((addr << 16) as i64 >> 16) as u64
VirtualNewTruncate(addr) == Sar64(Shl64(addr, 16), 16)

\* mutant of try_new: the mask leaves bit 47 out
VirtualTryNew_Mask48(address) ==
    LET top == Shr64(And64(address, U64(\hFFFF, \h0000, 0, 0)), 47)
    IN  IF top = OfNat(0) \/ top = U64(0, 0, 1, \hFFFF) THEN Ok(address)
        ELSE IF top = OfNat(1) THEN Ok(VirtualNewTruncate(address))
        ELSE Err(address)

\* Virtual::try_new
VirtualTryNew(address) ==
    LET top == Shr64(And64(address, U64(\hFFFF, \h8000, 0, 0)), 47)
    IN  IF top = OfNat(0) \/ top = U64(0, 0, 1, \hFFFF) THEN Ok(address)
        ELSE IF top = OfNat(1) THEN Ok(VirtualNewTruncate(address))
        ELSE Err(address)

\* Virtual::new
VirtualNew(address) ==
    LET r == VirtualTryNew(address)
    IN  IF r.outcome = "ok" THEN r ELSE Panic

\* Virtual::is_canonical
IsCanonical(address) ==
    LET top == Shr64(And64(address, U64(\hFFFF, \h8000, 0, 0)), 47)
    IN  top = OfNat(0) \/ top = U64(0, 0, 1, \hFFFF)

\* mutant of try_new: the comparison with the 52-bit limit is >= instead of >
PhysicalTryNew_Ge(address) ==
    IF Le64(U64(\h000F, \hFFFF, \hFFFF, \hFFFF), address)
    THEN Err(address)
    ELSE Ok(address)

\* Physical::try_new
PhysicalTryNew(address) ==
    IF Lt64(U64(\h000F, \hFFFF, \hFFFF, \hFFFF), address)
    THEN Err(address)
    ELSE Ok(address)

\* Physical::new
PhysicalNew(address) ==
    LET r == PhysicalTryNew(address)
    IN  IF r.outcome = "ok" THEN r ELSE Panic

\* Physical::new_truncate
PhysicalNewTruncate(addr) == And64(addr, U64(\h000F, \hFFFF, \hFFFF, \hFFFF))

Types == {"Virtual", "Physical"}

TryNew(ty, raw) == IF ty = "Virtual" THEN VirtualTryNew(raw) ELSE PhysicalTryNew(raw)
New(ty, raw) == IF ty = "Virtual" THEN VirtualNew(raw) ELSE PhysicalNew(raw)
NewTruncate(ty, raw) ==
    IF ty = "Virtual" THEN VirtualNewTruncate(raw) ELSE PhysicalNewTruncate(raw)

\* align - 1, for a nonzero align
Pred64(align) == AddCarry64(align, Ones64).sum

\* Virtual::align_up, Physical::align_up
\* mutant of align_up: the addition wraps
AlignUp_Wrapping(ty, raw, align) ==
    IF ~IsPowerOfTwo64(align) THEN Panic
    ELSE Ok(NewTruncate(ty, And64(AddCarry64(raw, Pred64(align)).sum, Not64(Pred64(align)))))

AlignUp(ty, raw, align) ==
    IF ~IsPowerOfTwo64(align) THEN Panic
    ELSE LET s == AddCarry64(raw, Pred64(align))
         IN  IF s.overflow THEN Panic
             ELSE Ok(NewTruncate(ty, And64(s.sum, Not64(Pred64(align)))))

\* Virtual::align_down, Physical::align_down
AlignDown(ty, raw, align) ==
    IF ~IsPowerOfTwo64(align) THEN Panic
    ELSE Ok(NewTruncate(ty, And64(raw, Not64(Pred64(align)))))

\* Virtual::is_aligned, Physical::is_aligned: the boolean, or a panic
IsAligned(raw, align) ==
    IF ~IsPowerOfTwo64(align) THEN [outcome |-> "panic", flag |-> FALSE]
    ELSE [outcome |-> "ok", flag |-> And64(raw, Pred64(align)) = Zero64]

\* Virtual::page_align_up, Physical::page_align_up
PageAlignUp(ty, raw) ==
    LET s == AddCarry64(raw, OfNat(\hFFF))
    IN  IF s.overflow THEN Panic
        ELSE Ok(NewTruncate(ty, And64(s.sum, Not64(OfNat(\hFFF)))))

\* Virtual::page_align_down, Physical::page_align_down
PageAlignDown(ty, raw) == Ok(NewTruncate(ty, And64(raw, OfNat(\hFFF))))

\* mutant of is_page_aligned: 11 trailing zeros are enough
IsPageAligned_11(raw) == TrailingZeros64(raw) >= 11

\* Virtual::is_page_aligned, Physical::is_page_aligned
IsPageAligned(raw) == TrailingZeros64(raw) >= 12

\* impl Add<_> for Virtual / Physical: Self::new(self.0 + rhs).  The u64 `+`
\* aborts on overflow in a build with overflow checks and wraps in one without.
AddOp(ty, raw, rhs, checks) ==
    LET s == AddCarry64(raw, rhs)
    IN  IF s.overflow /\ checks THEN Panic ELSE New(ty, s.sum)

\* impl Sub<_> for Virtual / Physical: Self::new(self.0 - rhs)
SubOp(ty, raw, rhs, checks) ==
    LET s == SubBorrow64(raw, rhs)
    IN  IF s.overflow /\ checks THEN Panic ELSE New(ty, s.sum)

\* impl AddAssign<_> for Virtual / Physical: self.0 += rhs
AddAssignOp(ty, raw, rhs, checks) ==
    LET s == AddCarry64(raw, rhs)
    IN  IF s.overflow /\ checks THEN Panic ELSE Ok(s.sum)

\* impl SubAssign<_> for Virtual / Physical: self.0 -= rhs
SubAssignOp(ty, raw, rhs, checks) ==
    LET s == SubBorrow64(raw, rhs)
    IN  IF s.overflow /\ checks THEN Panic ELSE Ok(s.sum)

----------------------------------------------------------------------------
(* The address state machine: one address value, and the calls made on it. *)

\* raw 64-bit values handed to the constructors
RawInputs ==
    { Zero64,
      U64(0, 0, 0, \h00FF),
      U64(0, 0, 0, \h1000),
      U64(0, 0, 0, \h1001),
      U64(0, 0, 0, \h3000),
      U64(\h0000, \h7FFF, \hFFFF, \hF001),
      U64(\h0000, \h7FFF, \hFFFF, \hFFFF),
      U64(\h0000, \h8000, \h0000, \h0000),
      U64(\h0001, \h0000, \h0000, \h0000),
      U64(\h000F, \h8000, \h0000, \h0000),
      U64(\h000F, \hFFFF, \hFFFF, \hF001),
      U64(\h000F, \hFFFF, \hFFFF, \hFFFF),
      U64(\h0010, \h0000, \h0000, \h0000),
      U64(\h007F, \h8000, \h0000, \h0000),
      U64(\h8000, \h0000, \h0000, \h0000),
      U64(\hFFFF, \h0000, \h0000, \h0000),
      U64(\hFFFF, \h7FFF, \hFFFF, \hFFFF),
      U64(\hFFFF, \h8000, \h0000, \h0000),
      U64(\hFFFF, \h8000, \hDEAF, \hBEEF),
      U64(\hFFFF, \hFFFF, \hFFFF, \hF001),
      Ones64 }

\* alignments handed to align_up, align_down and is_aligned
\* Virtual::page_offset
PageOffset(raw) == And64(raw, OfNat(\hFFF))

\* mutant of page_index: the level is not reduced by one before the shift
PageIndex_Level(raw, level) ==
    IF ~(level >= 1 /\ level <= 5) THEN Panic
    ELSE Ok(And64(Shr64(Shr64(raw, 12), level * 9), OfNat(\h1FF)))

\* Virtual::page_index
PageIndex(raw, level) ==
    IF ~(level >= 1 /\ level <= 5) THEN Panic
    ELSE Ok(And64(Shr64(Shr64(raw, 12), (level - 1) * 9), OfNat(\h1FF)))

\* Virtual::pt_offset, pd_offset, pdpt_offset, pml4_offset, pml5_offset
PtOffset(raw) == PageIndex(raw, 1)
PdOffset(raw) == PageIndex(raw, 2)
PdptOffset(raw) == PageIndex(raw, 3)
Pml4Offset(raw) == PageIndex(raw, 4)
Pml5Offset(raw) == PageIndex(raw, 5)

\* the levels handed to page_index: the five valid ones and one on each side
IndexLevels == 0 .. 6

Aligns ==
    { Zero64,
      OfNat(1),
      OfNat(3),
      OfNat(8),
      OfNat(\h1000),
      U64(\h0000, \h8000, 0, 0),
      U64(\h0001, \h0000, 0, 0),
      U64(\h8000, \h0000, 0, 0) }

\* right-hand sides of +, -, += and -=
Offsets ==
    { OfNat(1),
      OfNat(\h1000),
      OfNat(\h2000),
      U64(\h0000, \h7FFF, \hFFFF, \hFFFF),
      U64(\hFFFF, \h8000, \h0000, \h0000),
      Ones64 }

\* the operand kinds of the arithmetic impls: an address of the same type, a u64, a usize
RhsKinds == {"addr", "u64", "usize"}

\* a right-hand side of kind "addr" is itself an address the constructors gave
RhsOk(ty, kind, rhs) == kind = "addr" => TryNew(ty, rhs) = Ok(rhs)

Call(op, ty, recv, arg, kind, outcome, out, flag) ==
    [op |-> op, ty |-> ty, recv |-> recv, arg |-> arg, kind |-> kind,
     outcome |-> outcome, out |-> out, flag |-> flag]

\* no call in flight: the caller is between two calls
Idle == Call("idle", "", Zero64, Zero64, "", "ok", Zero64, FALSE)

AddrStart ==
    /\ self \in {[ty |-> ty, raw |-> Zero64] : ty \in Types}   \* Virtual::zero(), Physical::zero()
    /\ last = Idle
    /\ overflow_checks \in BOOLEAN
    /\ nassign = 0

\* a constructor call: the value it returns becomes the address held
Construct(op, ty, raw, r) ==
    /\ last = Idle
    /\ last' = Call(op, ty, Zero64, raw, "", r.outcome, r.out, FALSE)
    /\ self' = IF r.outcome = "ok" THEN [ty |-> ty, raw |-> r.out] ELSE self
    /\ nassign' = IF r.outcome = "ok" THEN 0 ELSE nassign
    /\ UNCHANGED overflow_checks
    /\ OnlyAddr

\* a method call returning a new value: the address held is left as it is
Method(op, arg, kind, r, flag) ==
    /\ last = Idle
    /\ last' = Call(op, self.ty, self.raw, arg, kind, r.outcome, r.out, flag)
    /\ UNCHANGED <<self, overflow_checks, nassign>>
    /\ OnlyAddr

\* a compound assignment: the address held is overwritten in place
Assign(op, arg, kind, r) ==
    /\ last = Idle
    /\ nassign < MaxAssign
    /\ last' = Call(op, self.ty, self.raw, arg, kind, r.outcome, r.out, FALSE)
    /\ self' = IF r.outcome = "ok" THEN [self EXCEPT !.raw = r.out] ELSE self
    /\ nassign' = nassign + 1
    /\ UNCHANGED overflow_checks
    /\ OnlyAddr

CallNew == \E ty \in Types, raw \in RawInputs : Construct("new", ty, raw, New(ty, raw))
CallFrom == \E ty \in Types, raw \in RawInputs : Construct("from", ty, raw, New(ty, raw))
CallTryNew == \E ty \in Types, raw \in RawInputs : Construct("try_new", ty, raw, TryNew(ty, raw))
CallNewTruncate ==
    \E ty \in Types, raw \in RawInputs :
        Construct("new_truncate", ty, raw, Ok(NewTruncate(ty, raw)))

CallAlignUp == \E n \in Aligns : Method("align_up", n, "", AlignUp(self.ty, self.raw, n), FALSE)
CallAlignDown ==
    \E n \in Aligns : Method("align_down", n, "", AlignDown(self.ty, self.raw, n), FALSE)
CallIsAligned ==
    \E n \in Aligns :
        LET r == IsAligned(self.raw, n)
        IN  Method("is_aligned", n, "", [outcome |-> r.outcome, out |-> Zero64], r.flag)
CallPageAlignUp == Method("page_align_up", Zero64, "", PageAlignUp(self.ty, self.raw), FALSE)
CallPageAlignDown ==
    Method("page_align_down", Zero64, "", PageAlignDown(self.ty, self.raw), FALSE)
CallIsPageAligned ==
    Method("is_page_aligned", Zero64, "", Ok(Zero64), IsPageAligned(self.raw))

CallAdd ==
    \E kind \in RhsKinds, rhs \in Offsets :
        /\ RhsOk(self.ty, kind, rhs)
        /\ Method("add", rhs, kind, AddOp(self.ty, self.raw, rhs, overflow_checks), FALSE)
CallSub ==
    \E kind \in RhsKinds, rhs \in Offsets :
        /\ RhsOk(self.ty, kind, rhs)
        /\ Method("sub", rhs, kind, SubOp(self.ty, self.raw, rhs, overflow_checks), FALSE)
CallAddAssign ==
    \E kind \in RhsKinds, rhs \in Offsets :
        /\ RhsOk(self.ty, kind, rhs)
        /\ Assign("add_assign", rhs, kind, AddAssignOp(self.ty, self.raw, rhs, overflow_checks))
CallSubAssign ==
    \E kind \in RhsKinds, rhs \in Offsets :
        /\ RhsOk(self.ty, kind, rhs)
        /\ Assign("sub_assign", rhs, kind, SubAssignOp(self.ty, self.raw, rhs, overflow_checks))

\* the caller takes the result of the call and goes on
Return ==
    /\ last # Idle
    /\ last' = Idle
    /\ UNCHANGED <<self, overflow_checks, nassign>>
    /\ OnlyAddr

CallPageOffset ==
    /\ self.ty = "Virtual"
    /\ Method("page_offset", Zero64, "", Ok(PageOffset(self.raw)), FALSE)
CallPageIndex ==
    \E level \in IndexLevels :
        /\ self.ty = "Virtual"
        /\ Method("page_index", OfNat(level), "", PageIndex(self.raw, level), FALSE)
CallPtOffset ==
    /\ self.ty = "Virtual"
    /\ Method("pt_offset", OfNat(1), "", PtOffset(self.raw), FALSE)
CallPdOffset ==
    /\ self.ty = "Virtual"
    /\ Method("pd_offset", OfNat(2), "", PdOffset(self.raw), FALSE)
CallPdptOffset ==
    /\ self.ty = "Virtual"
    /\ Method("pdpt_offset", OfNat(3), "", PdptOffset(self.raw), FALSE)
CallPml4Offset ==
    /\ self.ty = "Virtual"
    /\ Method("pml4_offset", OfNat(4), "", Pml4Offset(self.raw), FALSE)
CallPml5Offset ==
    /\ self.ty = "Virtual"
    /\ Method("pml5_offset", OfNat(5), "", Pml5Offset(self.raw), FALSE)

AddrNext ==
    \/ CallNew
    \/ CallFrom
    \/ CallTryNew
    \/ CallNewTruncate
    \/ CallAlignUp
    \/ CallAlignDown
    \/ CallIsAligned
    \/ CallPageAlignUp
    \/ CallPageAlignDown
    \/ CallIsPageAligned
    \/ CallPageOffset
    \/ CallPageIndex
    \/ CallPtOffset
    \/ CallPdOffset
    \/ CallPdptOffset
    \/ CallPml4Offset
    \/ CallPml5Offset
    \/ CallAdd
    \/ CallSub
    \/ CallAddAssign
    \/ CallSubAssign
    \/ Return

\* the address value lying unused while another part of the crate is exercised
AddrIdle ==
    /\ self = [ty |-> "Virtual", raw |-> Zero64]
    /\ last = Idle
    /\ overflow_checks = TRUE
    /\ nassign = 0

----------------------------------------------------------------------------
(* What the claims about the address types say, stated on the bits.        *)

\* bit i of x
Bit(x, i) == (x[4 - (i \div 16)] \div (2 ^ (i % 16))) % 2

\* bits 48..63 are copies of bit 47
Canonical(x) == \A i \in 48..63 : Bit(x, i) = Bit(x, 47)
\* bits 52..63 are zero
Fits52(x) == \A i \in 52..63 : Bit(x, i) = 0
Valid(ty, x) == IF ty = "Virtual" THEN Canonical(x) ELSE Fits52(x)

\* bits 48..63 are all 0 or all 1
Uniform48(x) == \A i \in 48..63 : Bit(x, i) = Bit(x, 48)
\* bits 48..63 are all 0, or bits 47..63 are all 1
Bits48ZeroOr47One(x) ==
    \/ \A i \in 48..63 : Bit(x, i) = 0
    \/ \A i \in 47..63 : Bit(x, i) = 1

\* x and y agree on their n low bits
LowBitsEq(x, y, n) == \A i \in 0..(n - 1) : Bit(x, i) = Bit(y, i)

\* x is a multiple of the power of two n
AlignedTo(x, n) == \A i \in 0..(TrailingZeros64(n) - 1) : Bit(x, i) = 0

SafeOps ==
    {"new", "from", "try_new", "new_truncate",
     "align_up", "align_down", "page_align_up", "page_align_down"}

\* C1: every address the safe API returns is valid (Virtual: canonical, Physical:
\* bits 52-63 zero); new_truncate never fails, keeps the low 48 (Virtual) or 52
\* (Physical) bits of its argument and returns a valid argument unchanged.
C1_SafeValuesValid ==
    /\ (last.op \in SafeOps /\ last.outcome = "ok") => Valid(last.ty, last.out)
    /\ last.op = "new_truncate" =>
          /\ last.outcome = "ok"
          /\ LowBitsEq(last.out, last.arg, IF last.ty = "Virtual" THEN 48 ELSE 52)
          /\ Valid(last.ty, last.arg) => last.out = last.arg

\* C1 witness: new_truncate was handed a non-canonical value and changed it
C1_Witness ==
    /\ last.op = "new_truncate" /\ last.ty = "Virtual"
    /\ ~Canonical(last.arg) /\ last.out # last.arg /\ Canonical(last.out)

\* C2 as stated: Virtual::try_new is Ok exactly when bits 48-63 are uniform, Err
\* otherwise, and Virtual::new aborts exactly when try_new returns the error.
C2_TryNewIffUniform48 ==
    /\ (last.op = "try_new" /\ last.ty = "Virtual") =>
          /\ last.outcome = "ok" <=> Uniform48(last.arg)
          /\ last.outcome \in {"ok", "err"}
    /\ (last.op = "new" /\ last.ty = "Virtual") =>
          (last.outcome = "panic" <=> ~Uniform48(last.arg))

\* C2 amended: Virtual::try_new is Ok exactly when bits 48-63 are all 0 or bits
\* 47-63 are all 1, and returns InvalidVirtual holding the raw value otherwise;
\* Virtual::new aborts exactly when try_new returns the error.
C2_TryNewAccepts ==
    /\ (last.op = "try_new" /\ last.ty = "Virtual") =>
          /\ last.outcome = "ok" <=> Bits48ZeroOr47One(last.arg)
          /\ last.outcome # "ok" => (last.outcome = "err" /\ last.out = last.arg)
    /\ (last.op = "new" /\ last.ty = "Virtual") =>
          /\ last.outcome = "panic" <=> ~Bits48ZeroOr47One(last.arg)
          /\ last.outcome = "panic" <=> VirtualTryNew(last.arg).outcome = "err"

\* C2 witness: try_new rejected a value whose bits 48-63 are all 1 and bit 47 is 0
C2_Witness ==
    /\ last.op = "try_new" /\ last.ty = "Virtual"
    /\ last.arg = U64(\hFFFF, \h0000, \h0000, \h0000)
    /\ last.outcome = "err"

\* C3: Virtual::new(0x0000_7FFF_FFFF_FFFF) succeeds, Virtual::new and try_new
\* reject 0x0000_8000_0000_0000, and neither ever returns an address whose raw
\* value differs from its argument.
C3_BoundaryRejected ==
    (last.op \in {"new", "try_new"} /\ last.ty = "Virtual") =>
        /\ last.arg = U64(\h0000, \h7FFF, \hFFFF, \hFFFF) => last.outcome = "ok"
        /\ last.arg = U64(\h0000, \h8000, \h0000, \h0000) => last.outcome # "ok"
        /\ last.outcome = "ok" => last.out = last.arg

\* C4: Physical::try_new(v) is Ok(v) exactly when bits 52-63 of v are 0, and
\* Physical::new(v) aborts exactly otherwise; 0x000F_FFFF_FFFF_FFFF is accepted,
\* 0x0010_0000_0000_0000 and 0xFFFF_FFFF_FFFF_FFFF are rejected.
C4_PhysicalTryNew ==
    /\ (last.op = "try_new" /\ last.ty = "Physical") =>
          /\ (last.outcome = "ok" /\ last.out = last.arg) <=> Fits52(last.arg)
          /\ last.outcome \in {"ok", "err"}
    /\ (last.op = "new" /\ last.ty = "Physical") =>
          /\ last.outcome = "panic" <=> ~Fits52(last.arg)
          /\ last.outcome = "ok" => last.out = last.arg
    /\ (last.op \in {"new", "try_new"} /\ last.ty = "Physical") =>
          /\ last.arg = U64(\h000F, \hFFFF, \hFFFF, \hFFFF) => last.outcome = "ok"
          /\ last.arg = U64(\h0010, \h0000, \h0000, \h0000) => last.outcome # "ok"
          /\ last.arg = Ones64 => last.outcome # "ok"

\* C4 witness: Physical::new aborted on the first value above the 52-bit range
C4_Witness ==
    /\ last.op = "new" /\ last.ty = "Physical"
    /\ last.arg = U64(\h0010, \h0000, \h0000, \h0000)
    /\ last.outcome = "panic"

\* the exact sum or difference of the operands of the call, when it fits 64 bits
ExactArith(c) ==
    LET r == IF c.op \in {"add", "add_assign"}
             THEN AddCarry64(c.recv, c.arg)
             ELSE SubBorrow64(c.recv, c.arg)
    IN  ~r.overflow /\ c.out = r.sum

\* C5: every +, -, += and -= on a valid address either aborts or yields a valid
\* address whose raw value is the exact sum or difference of the operands.
\* (Stated for the build in which a u64 overflow aborts, the one the claim's
\* "aborts on overflow" describes; the build in which it wraps fails it sooner.)
C5_ArithmeticRevalidates ==
    (/\ last.op \in {"add", "sub", "add_assign", "sub_assign"}
     /\ Valid(last.ty, last.recv)
     /\ overflow_checks) =>
        \/ last.outcome = "panic"
        \/ last.outcome = "ok" /\ Valid(last.ty, last.out) /\ ExactArith(last)

\* C6: for a valid address a and a power-of-two n, when the call does not abort,
\* align_down(a, n) <= a <= align_up(a, n), the result is valid and aligned to n,
\* and it is a itself when a is already aligned to n.
C6_AlignBounds ==
    (/\ last.op \in {"align_up", "align_down"}
     /\ Valid(last.ty, last.recv)
     /\ IsPowerOfTwo64(last.arg)
     /\ last.outcome = "ok") =>
        /\ Valid(last.ty, last.out)
        /\ AlignedTo(last.out, last.arg)
        /\ last.op = "align_down" => Le64(last.out, last.recv)
        /\ last.op = "align_up" => Le64(last.recv, last.out)
        /\ AlignedTo(last.recv, last.arg) => last.out = last.recv

----------------------------------------------------------------------------
(* gdt.rs: the segment descriptor table Table<N>.                          *)

\* bitfield's BitRangeMut::set_bit_range on a u64: bits msb..lsb of x set to value
SetBitRange64(x, msb, lsb, value) ==
    LET mask == Shl64(Shr64(Shl64(Ones64, 63 - msb), 63 - msb + lsb), lsb)
    IN  Or64(And64(x, Not64(mask)), And64(Shl64(value, lsb), mask))

\* size_of::<TaskStateSegment>()
TssSize == 104

Segment(x) == [kind |-> "Segment", x |-> x, y |-> Zero64]
System(x, y) == [kind |-> "System", x |-> x, y |-> y]

\* Entry::NULL
EntryNull == Zero64

\* Descriptor::NULL, KERNEL_CODE64, KERNEL_DATA
DescriptorNull == Segment(Zero64)
KernelCode64 == Segment(U64(\h00AF, \h9B00, \h0000, \hFFFF))
KernelData == Segment(U64(\h00CF, \h9300, \h0000, \hFFFF))

\* DescriptorFlags::PRESENT = 1 << 47
GdtPresent == Shl64(OfNat(1), 47)

\* Descriptor::tss, for a task-state segment at address ptr
DescriptorTss(ptr) ==
    LET low0 == GdtPresent
        low1 == SetBitRange64(low0, 15, 0, OfNat(TssSize - 1))
        low2 == SetBitRange64(low1, 39, 16, And64(ptr, U64(0, 0, \h00FF, \hFFFF)))
        low3 == SetBitRange64(low2, 63, 56, And64(Shr64(ptr, 24), OfNat(\hFF)))
        low4 == SetBitRange64(low3, 43, 40, OfNat(9))
    IN  System(low4, And64(Shr64(ptr, 32), U64(0, 0, \hFFFF, \hFFFF)))

\* mutant of set_descriptor: the second slot of a system descriptor is written
\* before the first slot is checked
SetDescriptor_WriteFirst(descriptors, index, descriptor) ==
    IF ~(index < GdtN) THEN [outcome |-> "panic", descriptors |-> descriptors]
    ELSE IF descriptor.kind = "Segment"
    THEN IF descriptors[index] # Zero64
         THEN [outcome |-> "panic", descriptors |-> descriptors]
         ELSE [outcome |-> "ok", descriptors |-> [descriptors EXCEPT ![index] = descriptor.x]]
    ELSE IF ~(index + 1 < GdtN) THEN [outcome |-> "panic", descriptors |-> descriptors]
    ELSE IF descriptors[index + 1] # Zero64
    THEN [outcome |-> "panic", descriptors |-> descriptors]
    ELSE IF descriptors[index] # Zero64
    THEN [outcome |-> "panic",
          descriptors |-> [descriptors EXCEPT ![index + 1] = descriptor.y]]
    ELSE [outcome |-> "ok",
          descriptors |->
              [descriptors EXCEPT ![index + 1] = descriptor.y, ![index] = descriptor.x]]

\* the table with slot index set to entry
GdtStore(descriptors, index, entry) == [descriptors EXCEPT ![index] = entry]

\* Table::set_descriptor: the outcome and the descriptors after the call.  An
\* index past the array (index + 1 = N for a system descriptor) aborts on the
\* slice bounds check.
SetDescriptor(descriptors, index, descriptor) ==
    IF ~(index < GdtN) THEN [outcome |-> "panic", descriptors |-> descriptors]
    ELSE IF descriptor.kind = "Segment"
    THEN IF descriptors[index] # EntryNull
         THEN [outcome |-> "panic", descriptors |-> descriptors]
         ELSE [outcome |-> "ok", descriptors |-> GdtStore(descriptors, index, descriptor.x)]
    ELSE IF ~(index + 1 < GdtN) THEN [outcome |-> "panic", descriptors |-> descriptors]
    ELSE IF descriptors[index + 1] # EntryNull
    THEN [outcome |-> "panic", descriptors |-> descriptors]
    ELSE IF descriptors[index] # EntryNull
    THEN [outcome |-> "panic", descriptors |-> descriptors]
    ELSE [outcome |-> "ok",
          descriptors |->
              GdtStore(GdtStore(descriptors, index + 1, descriptor.y), index, descriptor.x)]

\* Table::clear_entry
ClearEntry(descriptors, index) ==
    IF ~(index < GdtN) THEN [outcome |-> "panic", descriptors |-> descriptors]
    ELSE [outcome |-> "ok", descriptors |-> GdtStore(descriptors, index, EntryNull)]

\* the address of Table::descriptors[0], and size_of::<Entry>()
GdtBase == U64(\hFFFF, \h8000, \h0020, \h0000)
EntrySize == 8

\* addresses a TaskStateSegment can lie at: below 4 GiB, above it, in the kernel half
TssAddrs ==
    { U64(\h0000, \h0000, \h0010, \h0000),
      U64(\h0000, \h0001, \h0010, \h0000),
      U64(\hFFFF, \h8000, \h0010, \h3000) }

\* descriptors handed to set_descriptor
GdtDescriptors == {DescriptorNull, KernelCode64, KernelData} \cup {DescriptorTss(p) : p \in TssAddrs}

\* indexes handed to set_descriptor and clear_entry; GdtN is the first one out of bounds
GdtIndexes == {1, 5, 6, GdtN - 1, GdtN}

\* the slots a descriptor installed at index occupies; the NULL descriptor is
\* the empty pattern and occupies none
Slots(index, descriptor) ==
    IF descriptor.kind = "System" THEN {index, index + 1}
    ELSE IF descriptor = DescriptorNull THEN {}
    ELSE {index}

\* the slots a successful set_descriptor writes, and the record of who wrote a slot
Written(index, descriptor) ==
    IF descriptor.kind = "System" THEN {index, index + 1} ELSE {index}
Owner(index, descriptor) == [index |-> index, descriptor |-> descriptor]
NoOwner == Owner(GdtN, DescriptorNull)

GdtCall(op, index, descriptor, outcome, busy) ==
    [op |-> op, index |-> index, descriptor |-> descriptor, outcome |-> outcome, busy |-> busy]
GdtIdle == GdtCall("idle", 0, DescriptorNull, "ok", FALSE)

\* Table::new
GdtInit ==
    /\ gdt = [i \in 0..(GdtN - 1) |-> EntryNull]
    /\ gdt_register = [limit |-> 0, base |-> Zero64]
    /\ gdtr = [limit |-> 0, base |-> Zero64]
    /\ gdt_installed = {}
    /\ gdt_owner = [i \in 0..(GdtN - 1) |-> NoOwner]
    /\ gdt_calls = 0
    /\ glast = GdtIdle

CallSetDescriptor ==
    \E index \in GdtIndexes, d \in GdtDescriptors :
        LET r == SetDescriptor(gdt, index, d)
        IN  /\ glast = GdtIdle
            /\ gdt_calls < MaxGdtCalls
            /\ gdt_calls' = gdt_calls + 1
            /\ gdt' = r.descriptors
            /\ gdt_installed' =
                  IF r.outcome = "ok" THEN gdt_installed \cup Slots(index, d) ELSE gdt_installed
            /\ gdt_owner' =
                  IF r.outcome # "ok" THEN gdt_owner
                  ELSE [i \in 0..(GdtN - 1) |->
                           IF i \notin Written(index, d) THEN gdt_owner[i]
                           ELSE IF d = DescriptorNull THEN NoOwner
                           ELSE Owner(index, d)]
            /\ glast' = GdtCall("set_descriptor", index, d, r.outcome,
                                Slots(index, d) \cap gdt_installed # {})
            /\ UNCHANGED <<gdt_register, gdtr>>
            /\ OnlyGdt

CallClearEntry ==
    \E index \in GdtIndexes :
        LET r == ClearEntry(gdt, index)
        IN  /\ glast = GdtIdle
            /\ gdt_calls < MaxGdtCalls
            /\ gdt_calls' = gdt_calls + 1
            /\ gdt' = r.descriptors
            /\ gdt_installed' =
                  IF r.outcome = "ok" THEN gdt_installed \ {index} ELSE gdt_installed
            /\ gdt_owner' =
                  IF r.outcome = "ok" THEN [gdt_owner EXCEPT ![index] = NoOwner] ELSE gdt_owner
            /\ glast' = GdtCall("clear_entry", index, DescriptorNull, r.outcome, FALSE)
            /\ UNCHANGED <<gdt_register, gdtr>>
            /\ OnlyGdt

\* mutant of flush: the register record is recomputed and not loaded
CallFlush_NoLoad ==
    /\ glast = GdtIdle
    /\ gdt_calls < MaxGdtCalls
    /\ gdt_calls' = gdt_calls + 1
    /\ gdt_register' = [limit |-> (GdtN * EntrySize - 1) % LimbBase, base |-> GdtBase]
    /\ gdtr' = gdtr
    /\ glast' = GdtCall("flush", 0, DescriptorNull, "ok", FALSE)
    /\ UNCHANGED <<gdt, gdt_installed, gdt_owner>>
    /\ OnlyGdt

\* Table::flush: the register record is recomputed and loaded with lgdt
CallFlush ==
    /\ glast = GdtIdle
    /\ gdt_calls < MaxGdtCalls
    /\ gdt_calls' = gdt_calls + 1
    /\ gdt_register' = [limit |-> (GdtN * EntrySize - 1) % LimbBase, base |-> GdtBase]
    /\ gdtr' = gdt_register'
    /\ glast' = GdtCall("flush", 0, DescriptorNull, "ok", FALSE)
    /\ UNCHANGED <<gdt, gdt_installed, gdt_owner>>
    /\ OnlyGdt

GdtReturn ==
    /\ glast # GdtIdle
    /\ glast' = GdtIdle
    /\ UNCHANGED <<gdt, gdt_register, gdtr, gdt_installed, gdt_owner, gdt_calls>>
    /\ OnlyGdt

GdtNext ==
    \/ CallSetDescriptor
    \/ CallClearEntry
    \/ CallFlush
    \/ GdtReturn

\* C7: set_descriptor aborts whenever a slot it targets was filled by an earlier
\* set_descriptor and not cleared since; a system descriptor installed at index
\* occupies exactly index and index + 1, so after a task-state descriptor went in
\* at 5, a set_descriptor at 6 aborts, whatever the task-state segment's address.
C7_NoSilentOverwrite ==
    glast.op = "set_descriptor" =>
        /\ glast.busy => glast.outcome = "panic"
        /\ (glast.outcome = "ok" /\ glast.descriptor.kind = "System") =>
              /\ gdt[glast.index] = glast.descriptor.x
              /\ gdt[glast.index + 1] = glast.descriptor.y

\* C23: set_descriptor aborts when index >= N, and for a system descriptor also
\* when index + 1 >= N; every set_descriptor that aborts, on a bound or on a
\* slot in use, leaves every slot of the table as it was.
C23_AbortLeavesTable ==
    [][glast'.op = "set_descriptor" =>
          /\ glast'.index >= GdtN => glast'.outcome = "panic"
          /\ (glast'.descriptor.kind = "System" /\ glast'.index + 1 >= GdtN) =>
                glast'.outcome = "panic"
          /\ glast'.outcome = "panic" => gdt' = gdt]_vars

\* C23 witness: a system descriptor was refused at a slot in use whose next
\* slot is free
C23_Witness ==
    /\ glast.op = "set_descriptor"
    /\ glast.descriptor.kind = "System"
    /\ glast.outcome = "panic"
    /\ glast.index = 5
    /\ gdt[5] # EntryNull
    /\ gdt[6] = EntryNull

\* C24: after any sequence of set_descriptor and clear_entry, every slot is
\* empty or part of a completely installed descriptor: of the two slots a
\* system descriptor was installed in, never one still holds its half while
\* the other was cleared or holds another descriptor.
C24_NoHalfDescriptor ==
    \A i \in 0..(GdtN - 1) :
        LET o == gdt_owner[i]
        IN  o.descriptor.kind = "System" =>
                /\ gdt_owner[o.index] = o
                /\ gdt_owner[o.index + 1] = o

----------------------------------------------------------------------------
(* idt.rs: DescriptorFlags, the flags word of a gate (a u16).              *)

\* bitfield's BitRangeMut::set_bit_range on a u16: bits msb..lsb of x set to value
SetBitRange16(x, msb, lsb, value) ==
    LET mask == (2 ^ (msb - lsb + 1) - 1) * (2 ^ lsb)
    IN  BitOr16(BitAnd16(x, 65535 - mask), BitAnd16((value * (2 ^ lsb)) % LimbBase, mask))

\* bitfield's BitMut::set_bit
SetBit16(x, bit, value) == SetBitRange16(x, bit, bit, IF value THEN 1 ELSE 0)

\* cpu::Privilege: Ring0 .. Ring3
Privileges == 0..3
PrivilegeKernel == 0

\* DescriptorFlags::new
FlagsNew == \h0F00

\* DescriptorFlags::present
FlagsPresent(f, present) == SetBit16(f, 15, present)

\* DescriptorFlags::with_interrupts
FlagsWithInterrupts(f, enabled) == SetBit16(f, 8, ~enabled)

\* DescriptorFlags::set_privilege_level
FlagsSetPrivilegeLevel(f, dpl) == SetBitRange16(f, 15, 13, dpl)

\* DescriptorFlags::set_stack_index
FlagsSetStackIndex(f, index) == SetBitRange16(f, 3, 0, index + 1)

\* stack indexes handed to set_stack_index: the seven stacks of the TSS
StackIndexes == 0..6

FlagCall(op, arg, before, built) == [op |-> op, arg |-> arg, before |-> before, built |-> built]

FlagsInit ==
    /\ dflags = FlagsNew
    /\ flast = FlagCall("new", 0, FlagsNew, FlagsNew)

CallFlagsNew ==
    /\ dflags' = FlagsNew
    /\ flast' = FlagCall("new", 0, dflags, FlagsNew)
    /\ OnlyFlags

CallPresent ==
    \E b \in BOOLEAN :
        /\ dflags' = FlagsPresent(dflags, b)
        /\ flast' = FlagCall("present", IF b THEN 1 ELSE 0, dflags, dflags')
        /\ OnlyFlags

CallWithInterrupts ==
    \E e \in BOOLEAN :
        /\ dflags' = FlagsWithInterrupts(dflags, e)
        /\ flast' = FlagCall("with_interrupts", IF e THEN 1 ELSE 0, dflags, dflags')
        /\ OnlyFlags

CallSetPrivilegeLevel ==
    \E dpl \in Privileges :
        /\ dflags' = FlagsSetPrivilegeLevel(dflags, dpl)
        /\ flast' = FlagCall("set_privilege_level", dpl, dflags, dflags')
        /\ OnlyFlags

CallSetStackIndex ==
    \E i \in StackIndexes :
        /\ dflags' = FlagsSetStackIndex(dflags, i)
        /\ flast' = FlagCall("set_stack_index", i, dflags, dflags')
        /\ OnlyFlags

\* DescriptorFlags::build: the flags built are returned, the builder is left at new()
CallFlagsBuild ==
    /\ dflags' = FlagsNew
    /\ flast' = FlagCall("build", 0, dflags, dflags)
    /\ OnlyFlags

FlagsNext ==
    \/ CallFlagsNew
    \/ CallPresent
    \/ CallWithInterrupts
    \/ CallSetPrivilegeLevel
    \/ CallSetStackIndex
    \/ CallFlagsBuild

\* the gate type field, bits 8-11 of the flags word: 0xE is an interrupt gate
\* (the CPU clears IF on entry), 0xF a trap gate (IF is left as it is)
GateType(f) == (f \div 256) % 16

\* C9: interrupts on entry default to disabled: new() and with_interrupts(false)
\* encode the interrupt gate (type 0xE), with_interrupts(true) the trap gate (0xF).
C9_DefaultInterruptGate ==
    /\ flast.op = "new" => GateType(flast.built) = 14
    /\ (flast.op = "with_interrupts" /\ flast.arg = 0) => GateType(flast.built) = 14
    /\ (flast.op = "with_interrupts" /\ flast.arg = 1) => GateType(flast.built) = 15

\* the bits of the flags word each setter owns: present bit 15, the privilege
\* level bits 13-14, the gate-type bit 8, the stack index bits 0-2
OwnBits ==
    [present |-> 32768, set_privilege_level |-> 24576, with_interrupts |-> 256,
     set_stack_index |-> 7]

\* C28: each setter changes only its own field: present(b) bit 15,
\* set_privilege_level(dpl) bits 13-14, with_interrupts(e) bit 8,
\* set_stack_index(i) bits 0-2, where it stores i + 1; the other bits are left
\* as they were, so present(true) followed by set_privilege_level(Ring3) still
\* has the present bit set.
C28_SettersKeepOtherFields ==
    flast.op \in DOMAIN OwnBits =>
        /\ BitAnd16(flast.built, 65535 - OwnBits[flast.op])
              = BitAnd16(flast.before, 65535 - OwnBits[flast.op])
        /\ flast.op = "present" => (flast.built \div 32768) % 2 = flast.arg
        /\ flast.op = "set_privilege_level" => (flast.built \div 8192) % 4 = flast.arg
        /\ flast.op = "set_stack_index" => flast.built % 8 = flast.arg + 1

----------------------------------------------------------------------------
(* idt.rs: the gate descriptor and the 256-entry gate table.               *)

\* segment::Selector::new, and Selector::KERNEL_CODE64
SelectorNew(index, privilege) == BitOr16((index * 8) % LimbBase, privilege)
KernelCodeSelector == SelectorNew(1, PrivilegeKernel)

\* Table::SIZE, and size_of::<Descriptor>()
IdtSize == 256
IdtDescriptorSize == 16

\* Descriptor::missing
DescriptorMissing ==
    [offset_low |-> 0, selector |-> KernelCodeSelector, flags |-> FlagsNew,
     offset_middle |-> 0, offset_high |-> <<0, 0>>, zero |-> 0]

\* Descriptor::set_handler_addr: offset_high holds bits 63..32 as two 16-bit halves
SetHandlerAddr(d, handler) ==
    [d EXCEPT !.offset_middle = Limb(Shr64(handler, 16), 0),
              !.offset_high = <<Limb(Shr64(handler, 32), 1), Limb(Shr64(handler, 32), 0)>>,
              !.offset_low = Limb(handler, 0)]

\* Descriptor::set_options, Descriptor::set_selector
SetOptions(d, flags) == [d EXCEPT !.flags = flags]
SetSelector(d, selector) == [d EXCEPT !.selector = selector]

\* the handler address a descriptor holds, as the CPU reads it
HandlerAddr(d) == U64(d.offset_high[1], d.offset_high[2], d.offset_middle, d.offset_low)

\* mutant of the store: the entry after the addressed one is written
IdtStore_Next(entries, index, d) == [entries EXCEPT ![(index + 1) % 256] = d]

\* the table with entry index set to d
IdtStore(entries, index, d) == [entries EXCEPT ![index] = d]

\* Table::set_descriptor: entries[index as usize] = descriptor, behind the
\* array's bounds check
IdtSetDescriptor(entries, index, d) ==
    IF index < IdtSize
    THEN [outcome |-> "ok", entries |-> IdtStore(entries, index, d)]
    ELSE [outcome |-> "panic", entries |-> entries]

\* handler addresses (generated stubs), and the descriptors built from them
Handlers == { U64(\hFFFF, \hFFFF, \h8010, \h2340), U64(\hFFFF, \h8000, \hDEAF, \hBEE0) }
PresentFlags ==
    { FlagsPresent(FlagsNew, TRUE),
      FlagsWithInterrupts(FlagsPresent(FlagsNew, TRUE), TRUE) }
IdtDescriptors ==
    {DescriptorMissing}
        \cup {SetOptions(SetHandlerAddr(DescriptorMissing, h), f) : h \in Handlers, f \in PresentFlags}

\* vectors handed to set_descriptor: a u8, so at most 255
Vectors == {0, 13, 14, 255}

\* the address of Table::entries[0]
IdtBase == U64(\hFFFF, \h8000, \h0030, \h0000)

IdtCall(op, index, outcome) == [op |-> op, index |-> index, outcome |-> outcome]
IdtIdle == IdtCall("idle", 0, "ok")

\* Table::new
IdtInit ==
    /\ idt = [v \in 0..(IdtSize - 1) |-> DescriptorMissing]
    /\ idt_register = [limit |-> 0, base |-> Zero64]
    /\ idtr = [limit |-> 0, base |-> Zero64]
    /\ idt_configured = {}
    /\ ilast = IdtIdle

CallIdtSetDescriptor ==
    \E index \in Vectors, d \in IdtDescriptors :
        LET r == IdtSetDescriptor(idt, index, d)
        IN  /\ ilast = IdtIdle
            /\ idt' = r.entries
            /\ idt_configured' = idt_configured \cup {index}
            /\ ilast' = IdtCall("set_descriptor", index, r.outcome)
            /\ UNCHANGED <<idt_register, idtr>>
            /\ OnlyIdt

\* Table::load: the register record is recomputed and loaded with lidt
CallIdtLoad ==
    /\ ilast = IdtIdle
    /\ idt_register' = [limit |-> (IdtDescriptorSize * IdtSize - 1) % LimbBase, base |-> IdtBase]
    /\ idtr' = idt_register'
    /\ ilast' = IdtCall("load", 0, "ok")
    /\ UNCHANGED <<idt, idt_configured>>
    /\ OnlyIdt

IdtReturn ==
    /\ ilast # IdtIdle
    /\ ilast' = IdtIdle
    /\ UNCHANGED <<idt, idt_register, idtr, idt_configured>>
    /\ OnlyIdt

IdtNext ==
    \/ CallIdtSetDescriptor
    \/ CallIdtLoad
    \/ IdtReturn

\* the present bit (bit 15) of a flags word
PresentBit(f) == (f \div 32768) % 2

\* C8: the table has exactly 256 entries; every vector never passed to
\* set_descriptor holds the missing descriptor (present clear, handler address 0,
\* kernel code selector), from Table::new() on; set_descriptor never aborts and
\* changes only the entry it addresses.
C8_UnconfiguredMissing ==
    /\ [](/\ DOMAIN idt = 0..255
          /\ \A v \in (0..255) \ idt_configured :
                /\ PresentBit(idt[v].flags) = 0
                /\ HandlerAddr(idt[v]) = Zero64
                /\ idt[v].selector = 8
          /\ ilast.op = "set_descriptor" => ilast.outcome = "ok")
    /\ [][ilast'.op = "set_descriptor" =>
            \A v \in (0..255) \ {ilast'.index} : idt'[v] = idt[v]]_vars

\* C8 witness: a present gate was installed at vector 14 and vector 13 was never configured
C8_Witness ==
    /\ ilast.op = "set_descriptor" /\ ilast.index = 14
    /\ PresentBit(idt[14].flags) = 1
    /\ HandlerAddr(idt[14]) \in Handlers
    /\ 13 \notin idt_configured
    /\ 255 \in idt_configured

----------------------------------------------------------------------------
(* gdt.rs, idt.rs: what the CPU sees of the two tables.                    *)

\* the entries the CPU reads through its table register: the memory from base
\* to base + limit, which is the table itself once flush / load pointed the
\* register at it, and nothing before
GdtObserved ==
    IF gdtr.base = GdtBase
    THEN [i \in 0..(((gdtr.limit + 1) \div EntrySize) - 1) |-> gdt[i]]
    ELSE <<>>
IdtObserved ==
    IF idtr.base = IdtBase
    THEN [v \in 0..(((idtr.limit + 1) \div IdtDescriptorSize) - 1) |-> idt[v]]
    ELSE <<>>

\* a behaviour works on one of the two tables: each is an object of its own,
\* and a step on one leaves the other's state unchanged
GdtUntouched == gdt_calls = 0 /\ glast = GdtIdle
IdtUntouched == idt_configured = {} /\ idtr.base = Zero64 /\ ilast = IdtIdle

GdtSetDescriptorStep == IdtUntouched /\ CallSetDescriptor
GdtClearEntryStep == IdtUntouched /\ CallClearEntry
GdtFlushStep == IdtUntouched /\ CallFlush
GdtReturnStep == IdtUntouched /\ GdtReturn
IdtSetDescriptorStep == GdtUntouched /\ CallIdtSetDescriptor
IdtLoadStep == GdtUntouched /\ CallIdtLoad
IdtReturnStep == GdtUntouched /\ IdtReturn

PublishNext ==
    \/ GdtSetDescriptorStep
    \/ GdtClearEntryStep
    \/ GdtFlushStep
    \/ GdtReturnStep
    \/ IdtSetDescriptorStep
    \/ IdtLoadStep
    \/ IdtReturnStep

\* set_descriptor and clear_entry leave the register record and the CPU's
\* register alone; flush and load set both to the table's limit and base
RegistersByFlushOnly ==
    /\ glast'.op \in {"set_descriptor", "clear_entry"} =>
          gdt_register' = gdt_register /\ gdtr' = gdtr
    /\ glast'.op = "flush" =>
          /\ gdt_register' = [limit |-> 8 * GdtN - 1, base |-> GdtBase]
          /\ gdtr' = gdt_register'
    /\ ilast'.op = "set_descriptor" =>
          idt_register' = idt_register /\ idtr' = idtr
    /\ ilast'.op = "load" =>
          /\ idt_register' = [limit |-> 4095, base |-> IdtBase]
          /\ idtr' = idt_register'

\* C25 as stated: set_descriptor and clear_entry never load the table register
\* and leave the register record unchanged; after flush() the record holds
\* limit 8*N - 1 and the address of slot 0, after load() limit 4095 and the
\* address of vector 0's entry; once published, the contents the CPU observes
\* change only in the next flush() / load().
C25_ObservedOnlyByFlush ==
    [][/\ RegistersByFlushOnly
       /\ GdtObserved' # GdtObserved => glast'.op = "flush"
       /\ IdtObserved' # IdtObserved => ilast'.op = "load"]_vars

\* C25 amended: the registers are as stated and change only in flush() /
\* load(); the CPU reads the table in place, so once the table is published
\* the contents it observes are the table's current contents, a later
\* set_descriptor or clear_entry included.
C25_RegistersOnlyByFlush ==
    [][/\ RegistersByFlushOnly
       /\ gdtr' # gdtr => glast'.op = "flush"
       /\ idtr' # idtr => ilast'.op = "load"
       /\ gdtr'.base = GdtBase => GdtObserved' = gdt'
       /\ idtr'.base = IdtBase => IdtObserved' = idt']_vars

\* C25 witness: a descriptor was installed in slot 1 of a published table and
\* the CPU observes it
C25_Witness ==
    /\ glast.op = "set_descriptor"
    /\ glast.index = 1
    /\ glast.outcome = "ok"
    /\ gdtr = [limit |-> 8 * GdtN - 1, base |-> GdtBase]
    /\ GdtObserved[1] = KernelCode64.x

----------------------------------------------------------------------------
(* idt.rs: the interrupt trampolines. The handler stub generated by        *)
(* interrupt_handler!, interrupt_enter and interrupt_exit are kept as the  *)
(* instruction sequences of the source and executed one instruction a step. *)

\* an instruction: r, r2 are register (or symbol) names, imm a word, n a number
Ins(op, r, r2, imm, n) == [op |-> op, r |-> r, r2 |-> r2, imm |-> imm, n |-> n]

Cld == Ins("cld", "", "", Zero64, 0)
Cli == Ins("cli", "", "", Zero64, 0)
Swapgs == Ins("swapgs", "", "", Zero64, 0)
Rdmsr == Ins("rdmsr", "", "", Zero64, 0)
Wrmsr == Ins("wrmsr", "", "", Zero64, 0)
Iretq == Ins("iretq", "", "", Zero64, 0)
\* cmp QWORD PTR [rsp + disp], imm
CmpMem(disp, imm) == Ins("cmp", "rsp", "", imm, disp)
\* je to the instruction at index target
Je(target) == Ins("je", "", "", Zero64, target)
Push(r) == Ins("push", r, "", Zero64, 0)
PushImm(imm) == Ins("push_imm", "", "", imm, 0)
Pop(r) == Ins("pop", r, "", Zero64, 0)
MovImm(r, imm) == Ins("mov_imm", r, "", imm, 0)
MovReg(dst, src) == Ins("mov_reg", dst, src, Zero64, 0)
\* mov dst, [rsp + disp]
MovLoad(dst, disp) == Ins("mov_load", dst, "rsp", Zero64, disp)
\* mov dst, [base]
MovLoadAt(dst, base) == Ins("mov_load", dst, base, Zero64, 0)
Pushfq == Ins("pushfq", "", "", Zero64, 0)
JmpReg(r) == Ins("jmp_reg", r, "", Zero64, 0)
CallSym(fn) == Ins("call", fn, "", Zero64, 0)
JmpSym(fn) == Ins("jmp", fn, "", Zero64, 0)
AddRsp(n) == Ins("add_rsp", "rsp", "", Zero64, n)

\* the model-specific registers the trampolines name
MsrFsBase == U64(0, 0, \hC000, \h0100)
MsrGsBase == U64(0, 0, \hC000, \h0101)
MsrKernelGsBase == U64(0, 0, \hC000, \h0102)

\* segment::Selector::KERNEL_CODE64 as the trampolines spell it, and USER_CODE64
KernelCs == OfNat(8)
UserCs == OfNat(SelectorNew(3, 3))

\* interrupt_handler!: the stub of a vector whose fault code the CPU pushes, and
\* the stub that pushes err in its place
HandlerStub(id, has_code, err) ==
    IF has_code
    THEN << PushImm(OfNat(id)),
            CallSym("interrupt_enter"),
            CallSym("handler"),
            JmpSym("interrupt_exit") >>
    ELSE << PushImm(OfNat(err)),
            PushImm(OfNat(id)),
            CallSym("interrupt_enter"),
            CallSym("handler"),
            JmpSym("interrupt_exit") >>

\* interrupt_enter
InterruptEnter ==
    << Cld,
       CmpMem(8 * 2, KernelCs),
       Je(5),
       Swapgs,
       \* 1:
       Push("r11"), Push("r10"), Push("r9"), Push("r8"), Push("rdi"),
       Push("rsi"), Push("rdx"), Push("rcx"), Push("rax"),
       Push("r15"), Push("r14"), Push("r13"), Push("r12"), Push("rbx"), Push("rbp"),
       MovImm("rax", MsrFsBase),
       Rdmsr,
       Push("rdx"),
       MovImm("rax", MsrGsBase),
       Rdmsr,
       MovReg("rdx", "rax"),
       MovImm("rax", MsrFsBase),
       Wrmsr,
       MovReg("rdi", "rsp"),
       MovLoad("rax", 16 * 8),
       JmpReg("rax") >>

\* mutant of interrupt_exit: rbx is popped before rbp
InterruptExit_Swapped ==
    << Pop("rdx"),
       MovImm("rax", MsrFsBase),
       Wrmsr,
       Pop("rbx"), Pop("rbp"), Pop("r12"), Pop("r13"), Pop("r14"), Pop("r15"),
       Pop("rax"), Pop("rcx"), Pop("rdx"), Pop("rsi"), Pop("rdi"),
       Pop("r8"), Pop("r9"), Pop("r10"), Pop("r11"),
       AddRsp(8 * 3),
       Cli,
       CmpMem(8, KernelCs),
       Je(24),
       Swapgs,
       Iretq >>

\* interrupt_exit
InterruptExit ==
    << Pop("rdx"),
       MovImm("rax", MsrFsBase),
       Wrmsr,
       Pop("rbp"), Pop("rbx"), Pop("r12"), Pop("r13"), Pop("r14"), Pop("r15"),
       Pop("rax"), Pop("rcx"), Pop("rdx"), Pop("rsi"), Pop("rdi"),
       Pop("r8"), Pop("r9"), Pop("r10"), Pop("r11"),
       AddRsp(8 * 3),
       Cli,
       CmpMem(8, KernelCs),
       Je(24),
       Swapgs,
       \* 1:
       Iretq >>

\* code addresses: function k, instruction at
FnIndex(fn) ==
    CASE fn = "stub" -> 1
      [] fn = "interrupt_enter" -> 2
      [] fn = "interrupt_exit" -> 3
      [] fn = "handler" -> 4
      [] fn = "switch" -> 5
FnOfIndex(k) ==
    CASE k = 1 -> "stub"
      [] k = 2 -> "interrupt_enter"
      [] k = 3 -> "interrupt_exit"
      [] k = 4 -> "handler"
      [] k = 5 -> "switch"
      [] OTHER -> "wild"
CodeAddr(fn, at) == U64(\hFFFF, \hFFFF, \h8100 + FnIndex(fn), at)
At(fn, at) == [fn |-> fn, at |-> at]

\* cpu::switch: its asm block, with the registers the build chose for the
\* operands from and to; the label 1: is the end of the block
SwitchEnd == 44
Switch(from, to) ==
    << MovReg("rax", "rsp"),
       MovLoadAt("rsp", from),
       PushImm(OfNat(0)),
       Push("rax"),
       Pushfq,
       PushImm(OfNat(8)),
       PushImm(CodeAddr("switch", SwitchEnd)),
       PushImm(OfNat(0)), PushImm(OfNat(0)), PushImm(OfNat(0)),
       Push("r11"), Push("r10"), Push("r9"), Push("r8"), Push("rdi"),
       Push("rsi"), Push("rdx"), Push("rcx"), Push("rax"),
       Push("r15"), Push("r14"), Push("r13"), Push("r12"), Push("rbx"), Push("rbp"),
       MovLoadAt("rsp", to),
       Pop("rbp"), Pop("rbx"), Pop("r12"), Pop("r13"), Pop("r14"), Pop("r15"),
       Pop("rax"), Pop("rcx"), Pop("rdx"), Pop("rsi"), Pop("rdi"),
       Pop("r8"), Pop("r9"), Pop("r10"), Pop("r11"),
       AddRsp(24),
       Iretq >>

\* the code the CPU can fetch from
CodeFns == {"stub", "interrupt_enter", "interrupt_exit", "switch"}
Code(fn) ==
    CASE fn = "stub" -> HandlerStub(transfer.vector, transfer.has_code, transfer.err)
      [] fn = "interrupt_enter" -> InterruptEnter
      [] fn = "interrupt_exit" -> InterruptExit
      [] fn = "switch" -> Switch(sw.from_reg, sw.to_reg)
\* where a jump to address a lands
Target(a) ==
    IF a[1] = \hFFFF /\ a[2] = \hFFFF /\ a[3] > \h8100
    THEN At(FnOfIndex(a[3] - \h8100), a[4])
    ELSE At("wild", 0)

\* the instruction at pc
Fetch ==
    IF pc.fn \in CodeFns /\ pc.at \in DOMAIN Code(pc.fn)
    THEN Code(pc.fn)[pc.at]
    ELSE Ins("none", "", "", Zero64, 0)
Advance == At(pc.fn, pc.at + 1)

\* the kernel stack: StackSlots words below StackTop (the TSS's rsp0)
StackSlots == 64
StackTop == U64(\hFFFF, \h8000, \h0040, \h1000)
Add64(a, b) == AddCarry64(a, b).sum
Sub64(a, b) == SubBorrow64(a, b).sum
StackAddr(k) == Sub64(StackTop, OfNat(8 * k))
StackAddrs == { StackAddr(k) : k \in 1..StackSlots }

\* the RFLAGS image of the flags the model keeps: bit 1 is always set, IF is
\* bit 9, DF bit 10
Rflags(c) == OfNat(2 + (IF c.IFlag THEN 512 ELSE 0) + (IF c.DFlag THEN 1024 ELSE 0))

\* the memory after pushing the words ws (first pushed first) below rsp
RECURSIVE PushAll(_, _, _)
PushAll(m, rsp, ws) ==
    IF ws = <<>> THEN m
    ELSE PushAll([m EXCEPT ![Sub64(rsp, OfNat(8))] = Head(ws)], Sub64(rsp, OfNat(8)), Tail(ws))

\* the register a model-specific access addresses: ecx selects it
MsrName(rcx) ==
    CASE <<rcx[3], rcx[4]>> = <<MsrFsBase[3], MsrFsBase[4]>> -> "FS_BASE"
      [] <<rcx[3], rcx[4]>> = <<MsrGsBase[3], MsrGsBase[4]>> -> "GS_BASE"
      [] <<rcx[3], rcx[4]>> = <<MsrKernelGsBase[3], MsrKernelGsBase[4]>> -> "KERNEL_GS_BASE"
      [] OTHER -> "none"
MsrNames == {"FS_BASE", "GS_BASE", "KERNEL_GS_BASE"}

\* the registers a cpu::State saves, in a fixed order, and the scratch ones
GprOrder ==
    << "rax", "rcx", "rdx", "rbx", "rbp", "rsi", "rdi",
       "r8", "r9", "r10", "r11", "r12", "r13", "r14", "r15" >>
Gprs == { GprOrder[i] : i \in DOMAIN GprOrder }
ScratchRegs == {"rax", "rcx", "rdx", "rsi", "rdi", "r8", "r9", "r10", "r11"}
RegIndex(r) == CHOOSE i \in DOMAIN GprOrder : GprOrder[i] = r

\* the value register r holds at the interruption: all 64 bits in use
RegValue(r) == U64(\hA000 + RegIndex(r), \hB000 + RegIndex(r), \hC000, RegIndex(r))
\* what a handler leaves in a scratch register it used
Junk == U64(\hDEAD, \hDEAD, \hDEAD, \hDEAD)

\* the values of rcx at the interruption: an ordinary value, and the numbers of
\* model-specific registers (the interrupted code was about to access one)
RcxValues == { RegValue("rcx"), MsrFsBase, MsrGsBase, MsrKernelGsBase }

\* the bases: the thread's FS and GS bases and the kernel's per-core base; a
\* thread or a kernel that uses no thread-local storage has an FS base of 0
UserFsBase == U64(0, \h7F00, \h1234, \h5000)
UserGsBase == U64(0, \h7F00, \hAAAA, \h0000)
KernelFsBase == U64(\hFFFF, \h8000, \h0060, \h0000)
PerCoreBase == U64(\hFFFF, \h8000, \h0050, \h0000)

\* the transfers: vector 13 and 14 push a fault code, vector 3 and 32 do not
\* and their stub pushes 0 in its place
FaultCodes == {0, 8, 16}
Transfers ==
    { [vector |-> 13, has_code |-> TRUE, code |-> c, err |-> 0, gate |-> g] :
        c \in FaultCodes, g \in PresentFlags }
    \cup { [vector |-> 14, has_code |-> TRUE, code |-> 2, err |-> 0, gate |-> g] :
        g \in PresentFlags }
    \cup { [vector |-> v, has_code |-> FALSE, code |-> 0, err |-> 0, gate |-> g] :
        v \in {3, 32}, g \in PresentFlags }

\* no switch was called
SwitchIdle ==
    [from_reg |-> "rdi", to_reg |-> "rsi", calls |-> 0, current |-> "A",
     caller |-> [regs |-> <<>>, cpu |-> <<>>]]

\* the machine at the moment of an interruption of user or kernel code
IntAt(user, ifl, df, tls, rcx, t) ==
    /\ pc = At("interrupted", 0)
    /\ regs = [r \in Gprs \cup {"rsp"} |->
                 IF r = "rsp" THEN (IF user THEN U64(0, \h7FFF, \hFFFF, \hE008)
                                    ELSE StackAddr(5))
                 ELSE IF r = "rcx" THEN rcx
                 ELSE RegValue(r)]
    /\ mem = [a \in StackAddrs |-> Zero64]
    /\ msr = [m \in MsrNames |->
                 CASE m = "FS_BASE" -> IF ~tls THEN Zero64
                                       ELSE IF user THEN UserFsBase ELSE KernelFsBase
                   [] m = "GS_BASE" -> IF user THEN UserGsBase ELSE PerCoreBase
                   [] m = "KERNEL_GS_BASE" -> IF user THEN PerCoreBase ELSE UserGsBase]
    /\ cpu = [cs |-> IF user THEN UserCs ELSE KernelCs,
              ss |-> IF user THEN OfNat(SelectorNew(4, 3)) ELSE OfNat(SelectorNew(2, 0)),
              rip |-> IF user THEN U64(0, 0, \h0040, \h1000)
                      ELSE U64(\hFFFF, \hFFFF, \h8000, \h0777),
              IFlag |-> ifl, DFlag |-> df, ZFlag |-> FALSE]
    /\ transfer = t
    /\ interrupted = [regs |-> regs, msr |-> msr, cpu |-> cpu]
    /\ swaps = [enter |-> 0, exit |-> 0]
    /\ nested = [depth |-> 0, at |-> At("interrupted", 0)]
    /\ handled = [ran |-> FALSE, clobber |-> FALSE, wrote_rip |-> FALSE]
    /\ sw = SwitchIdle

\* user code runs with interrupts enabled
IntStart ==
    \E user \in BOOLEAN, ifl \in BOOLEAN, df \in BOOLEAN, tls \in BOOLEAN,
       rcx \in RcxValues, t \in Transfers :
        /\ user => ifl
        /\ IntAt(user, ifl, df, tls, rcx, t)

IntIdle ==
    IntAt(FALSE, FALSE, FALSE, FALSE, RegValue("rcx"),
          [vector |-> 3, has_code |-> FALSE, code |-> 0, err |-> 0,
           gate |-> FlagsPresent(FlagsNew, TRUE)])

\* the CPU delivers the transfer through the gate: from user code it moves to
\* the kernel stack, aligns it, pushes ss, rsp, rflags, cs, rip and the fault
\* code if the vector has one; an interrupt gate clears IF.  A maskable
\* interrupt (vector 32 and up) arrives only while IF is set.
Deliver ==
    /\ pc.fn = "interrupted"
    /\ transfer.vector >= 32 => cpu.IFlag
    /\ LET from_user == cpu.cs[4] % 4 = 3
           base == IF from_user THEN StackTop ELSE regs["rsp"]
           top == And64(base, Not64(OfNat(15)))
           frame == <<cpu.ss, regs["rsp"], Rflags(cpu), cpu.cs, cpu.rip>>
                        \o (IF transfer.has_code THEN <<OfNat(transfer.code)>> ELSE <<>>)
       IN  /\ mem' = PushAll(mem, top, frame)
           /\ regs' = [regs EXCEPT !["rsp"] = Sub64(top, OfNat(8 * Len(frame)))]
           /\ cpu' = [cpu EXCEPT !.cs = OfNat(KernelCodeSelector),
                                 !.ss = IF from_user THEN Zero64 ELSE cpu.ss,
                                 !.IFlag = IF GateType(transfer.gate) = 14 THEN FALSE ELSE cpu.IFlag]
    /\ pc' = At("stub", 1)
    /\ UNCHANGED <<msr, transfer, interrupted, swaps, nested, handled, sw>>
    /\ OnlyInt

ExecCld ==
    /\ Fetch.op = "cld"
    /\ cpu' = [cpu EXCEPT !.DFlag = FALSE]
    /\ pc' = Advance
    /\ UNCHANGED <<regs, mem, msr, transfer, interrupted, swaps, nested, handled, sw>>
    /\ OnlyInt

ExecCli ==
    /\ Fetch.op = "cli"
    /\ cpu' = [cpu EXCEPT !.IFlag = FALSE]
    /\ pc' = Advance
    /\ UNCHANGED <<regs, mem, msr, transfer, interrupted, swaps, nested, handled, sw>>
    /\ OnlyInt

ExecCmp ==
    /\ Fetch.op = "cmp"
    /\ cpu' = [cpu EXCEPT !.ZFlag = (mem[Add64(regs["rsp"], OfNat(Fetch.n))] = Fetch.imm)]
    /\ pc' = Advance
    /\ UNCHANGED <<regs, mem, msr, transfer, interrupted, swaps, nested, handled, sw>>
    /\ OnlyInt

ExecJe ==
    /\ Fetch.op = "je"
    /\ pc' = IF cpu.ZFlag THEN At(pc.fn, Fetch.n) ELSE Advance
    /\ UNCHANGED <<regs, mem, msr, cpu, transfer, interrupted, swaps, nested, handled, sw>>
    /\ OnlyInt

\* swapgs exchanges the GS base with the kernel GS base
ExecSwapgs ==
    /\ Fetch.op = "swapgs"
    /\ msr' = [msr EXCEPT !["GS_BASE"] = msr["KERNEL_GS_BASE"],
                          !["KERNEL_GS_BASE"] = msr["GS_BASE"]]
    /\ swaps' = IF pc.fn = "interrupt_enter"
                THEN [swaps EXCEPT !.enter = @ + 1]
                ELSE [swaps EXCEPT !.exit = @ + 1]
    /\ pc' = Advance
    /\ UNCHANGED <<regs, mem, cpu, transfer, interrupted, nested, handled, sw>>
    /\ OnlyInt

ExecPush ==
    /\ Fetch.op = "push"
    /\ mem' = [mem EXCEPT ![Sub64(regs["rsp"], OfNat(8))] = regs[Fetch.r]]
    /\ regs' = [regs EXCEPT !["rsp"] = Sub64(regs["rsp"], OfNat(8))]
    /\ pc' = Advance
    /\ UNCHANGED <<msr, cpu, transfer, interrupted, swaps, nested, handled, sw>>
    /\ OnlyInt

ExecPushImm ==
    /\ Fetch.op = "push_imm"
    /\ mem' = [mem EXCEPT ![Sub64(regs["rsp"], OfNat(8))] = Fetch.imm]
    /\ regs' = [regs EXCEPT !["rsp"] = Sub64(regs["rsp"], OfNat(8))]
    /\ pc' = Advance
    /\ UNCHANGED <<msr, cpu, transfer, interrupted, swaps, nested, handled, sw>>
    /\ OnlyInt

ExecPushfq ==
    /\ Fetch.op = "pushfq"
    /\ mem' = [mem EXCEPT ![Sub64(regs["rsp"], OfNat(8))] = Rflags(cpu)]
    /\ regs' = [regs EXCEPT !["rsp"] = Sub64(regs["rsp"], OfNat(8))]
    /\ pc' = Advance
    /\ UNCHANGED <<msr, cpu, transfer, interrupted, swaps, nested, handled, sw>>
    /\ OnlyInt

ExecPop ==
    /\ Fetch.op = "pop"
    /\ regs' = [regs EXCEPT ![Fetch.r] = mem[regs["rsp"]],
                            !["rsp"] = Add64(regs["rsp"], OfNat(8))]
    /\ pc' = Advance
    /\ UNCHANGED <<mem, msr, cpu, transfer, interrupted, swaps, nested, handled, sw>>
    /\ OnlyInt

ExecMovImm ==
    /\ Fetch.op = "mov_imm"
    /\ regs' = [regs EXCEPT ![Fetch.r] = Fetch.imm]
    /\ pc' = Advance
    /\ UNCHANGED <<mem, msr, cpu, transfer, interrupted, swaps, nested, handled, sw>>
    /\ OnlyInt

ExecMovReg ==
    /\ Fetch.op = "mov_reg"
    /\ regs' = [regs EXCEPT ![Fetch.r] = regs[Fetch.r2]]
    /\ pc' = Advance
    /\ UNCHANGED <<mem, msr, cpu, transfer, interrupted, swaps, nested, handled, sw>>
    /\ OnlyInt

ExecMovLoad ==
    /\ Fetch.op = "mov_load"
    /\ regs' = [regs EXCEPT ![Fetch.r] = mem[Add64(regs[Fetch.r2], OfNat(Fetch.n))]]
    /\ pc' = Advance
    /\ UNCHANGED <<mem, msr, cpu, transfer, interrupted, swaps, nested, handled, sw>>
    /\ OnlyInt

ExecAddRsp ==
    /\ Fetch.op = "add_rsp"
    /\ regs' = [regs EXCEPT !["rsp"] = Add64(regs["rsp"], OfNat(Fetch.n))]
    /\ pc' = Advance
    /\ UNCHANGED <<mem, msr, cpu, transfer, interrupted, swaps, nested, handled, sw>>
    /\ OnlyInt

\* bits 63..47 of a base are all equal
CanonicalBase(w) == (w[1] = 0 /\ w[2] < \h8000) \/ (w[1] = \hFFFF /\ w[2] >= \h8000)

\* rdmsr reads the register ecx selects into edx:eax (the upper halves of rax
\* and rdx are cleared); a number that selects no register faults (#GP)
ExecRdmsr ==
    /\ Fetch.op = "rdmsr"
    /\ LET name == MsrName(regs["rcx"])
       IN  IF name = "none"
           THEN /\ pc' = At("fault", 13)
                /\ UNCHANGED regs
           ELSE /\ regs' = [regs EXCEPT !["rax"] = U64(0, 0, msr[name][3], msr[name][4]),
                                        !["rdx"] = U64(0, 0, msr[name][1], msr[name][2])]
                /\ pc' = Advance
    /\ UNCHANGED <<mem, msr, cpu, transfer, interrupted, swaps, nested, handled, sw>>
    /\ OnlyInt

\* wrmsr writes edx:eax to the register ecx selects; it faults (#GP) if ecx
\* selects no register or the base written is not canonical
ExecWrmsr ==
    /\ Fetch.op = "wrmsr"
    /\ LET name == MsrName(regs["rcx"])
           value == U64(regs["rdx"][3], regs["rdx"][4], regs["rax"][3], regs["rax"][4])
       IN  IF name = "none" \/ ~CanonicalBase(value)
           THEN /\ pc' = At("fault", 13)
                /\ UNCHANGED msr
           ELSE /\ msr' = [msr EXCEPT ![name] = value]
                /\ pc' = Advance
    /\ UNCHANGED <<regs, mem, cpu, transfer, interrupted, swaps, nested, handled, sw>>
    /\ OnlyInt

\* call: the address of the next instruction is pushed
ExecCall ==
    /\ Fetch.op = "call"
    /\ mem' = [mem EXCEPT ![Sub64(regs["rsp"], OfNat(8))] = CodeAddr(pc.fn, pc.at + 1)]
    /\ regs' = [regs EXCEPT !["rsp"] = Sub64(regs["rsp"], OfNat(8))]
    /\ pc' = At(Fetch.r, 1)
    /\ UNCHANGED <<msr, cpu, transfer, interrupted, swaps, nested, handled, sw>>
    /\ OnlyInt

ExecJmp ==
    /\ Fetch.op = "jmp"
    /\ pc' = At(Fetch.r, 1)
    /\ UNCHANGED <<regs, mem, msr, cpu, transfer, interrupted, swaps, nested, handled, sw>>
    /\ OnlyInt

ExecJmpReg ==
    /\ Fetch.op = "jmp_reg"
    /\ pc' = Target(regs[Fetch.r])
    /\ UNCHANGED <<regs, mem, msr, cpu, transfer, interrupted, swaps, nested, handled, sw>>
    /\ OnlyInt

\* cpu::State: its fields in order, each a u64, and the byte offset of a field
StateFields ==
    << "rbp", "rbx", "r12", "r13", "r14", "r15",
       "rax", "rcx", "rdx", "rsi", "rdi", "r8", "r9", "r10", "r11",
       "address", "number", "code",
       "rip", "cs", "rflags", "rsp", "ss" >>
FieldOffset(f) == 8 * ((CHOOSE i \in DOMAIN StateFields : StateFields[i] = f) - 1)

\* the slot a field of the State at address state occupies
FieldSlot(state, f) == Add64(state, OfNat(FieldOffset(f)))

\* where a handler that redirects execution sends it
NewRip == U64(0, 0, \h0040, \h2000)

\* what the handler leaves in the scratch registers: the values it found, its
\* own values, or its own values with rcx the number of the FS base register
\* (its last access to a model-specific register)
HandlerLeaves == {"kept", "junk", "msr"}

\* the handler (an extern "C" function) runs and returns: the preserved
\* registers and the stack pointer are as it found them, the scratch registers
\* hold what it left in them.  It may assign to the rip field of the State it
\* was given (at the address in rdi, which is also where a State passed by
\* value lies: just above the return address).
RunHandler ==
    /\ pc.fn = "handler"
    /\ \E left \in HandlerLeaves, write \in BOOLEAN :
          /\ regs' = [r \in DOMAIN regs |->
                        IF r = "rsp" THEN Add64(regs["rsp"], OfNat(8))
                        ELSE IF left # "kept" /\ r \in ScratchRegs
                             THEN (IF r = "rcx" /\ left = "msr" THEN MsrFsBase ELSE Junk)
                        ELSE regs[r]]
          /\ mem' = IF write
                    THEN [mem EXCEPT ![FieldSlot(regs["rdi"], "rip")] = NewRip]
                    ELSE mem
          /\ handled' = [ran |-> TRUE, clobber |-> left # "kept", wrote_rip |-> write]
    /\ pc' = Target(mem[regs["rsp"]])
    /\ UNCHANGED <<msr, cpu, transfer, interrupted, swaps, nested, sw>>
    /\ OnlyInt

\* iretq pops rip, cs, rflags, rsp and ss and resumes the interrupted code (a
\* trampoline, if the transfer was delivered inside one)
ExecIretq ==
    /\ Fetch.op = "iretq"
    /\ LET slot(k) == mem[Add64(regs["rsp"], OfNat(8 * k))]
       IN  /\ cpu' = [cs |-> slot(1), ss |-> slot(4), rip |-> slot(0),
                      IFlag |-> (slot(2)[4] \div 512) % 2 = 1,
                      DFlag |-> (slot(2)[4] \div 1024) % 2 = 1,
                      ZFlag |-> (slot(2)[4] \div 64) % 2 = 1]
           /\ regs' = [regs EXCEPT !["rsp"] = slot(3)]
    /\ pc' = IF Target(mem[regs["rsp"]]).fn \in CodeFns
             THEN Target(mem[regs["rsp"]])
             ELSE At("resumed", 0)
    /\ UNCHANGED <<mem, msr, transfer, interrupted, swaps, nested, handled, sw>>
    /\ OnlyInt

IntNext ==
    \/ Deliver
    \/ ExecCld
    \/ ExecCli
    \/ ExecCmp
    \/ ExecJe
    \/ ExecSwapgs
    \/ ExecPush
    \/ ExecPushImm
    \/ ExecPop
    \/ ExecMovImm
    \/ ExecMovReg
    \/ ExecMovLoad
    \/ ExecAddRsp
    \/ ExecRdmsr
    \/ ExecWrmsr
    \/ ExecCall
    \/ ExecJmp
    \/ ExecJmpReg
    \/ RunHandler
    \/ ExecIretq

\* C10: interrupt_enter executes swapgs if and only if the cs saved in the
\* hardware-pushed frame (the interrupted cs) differs from the kernel code
\* selector 0x08, for both stub variants and whatever the vector number and
\* fault code on the stack: at the label after the swap, the swap was executed
\* exactly when the interrupted code was not kernel code.
C10_SwapgsIffNotKernelCs ==
    pc = At("interrupt_enter", 5) =>
        ((swaps.enter = 1) <=> (interrupted.cpu.cs # KernelCs))

\* the transfers served above the first
MaxNest == 1

\* a further maskable interrupt is delivered while a trampoline runs with IF
\* set: the CPU pushes the frame of the trampoline (cs is the kernel's, rip the
\* next trampoline instruction) on the current stack and enters the stub again
DeliverNested ==
    /\ pc.fn \in CodeFns
    /\ cpu.IFlag
    /\ transfer.vector >= 32
    /\ nested.depth < MaxNest
    /\ LET top == And64(regs["rsp"], Not64(OfNat(15)))
           frame == <<cpu.ss, regs["rsp"], Rflags(cpu), cpu.cs, CodeAddr(pc.fn, pc.at)>>
       IN  /\ mem' = PushAll(mem, top, frame)
           /\ regs' = [regs EXCEPT !["rsp"] = Sub64(top, OfNat(8 * Len(frame)))]
           /\ cpu' = [cpu EXCEPT !.cs = OfNat(KernelCodeSelector),
                                 !.IFlag = IF GateType(transfer.gate) = 14 THEN FALSE
                                           ELSE cpu.IFlag]
    /\ nested' = [depth |-> nested.depth + 1, at |-> pc]
    /\ pc' = At("stub", 1)
    /\ UNCHANGED <<msr, transfer, interrupted, swaps, handled, sw>>
    /\ OnlyInt

NestNext ==
    \/ IntNext
    \/ DeliverNested

\* the gate options a kernel that follows the documentation installs: present,
\* everything else as DescriptorFlags::new() leaves it
DefaultGate == FlagsPresent(FlagsNew, TRUE)

\* the instruction boundaries between the code-selector test and the swapgs of
\* interrupt_enter, and between the cli and the iretq of interrupt_exit
SwapWindow ==
    { At("interrupt_enter", 3), At("interrupt_enter", 4) }
        \cup { At("interrupt_exit", k) : k \in 21..24 }

\* C11: with gates installed with the default options, no further transfer is
\* delivered between the code-selector test and the swapgs of interrupt_enter
\* nor between the cli and the iretq of interrupt_exit.
C11_NoTransferInSwapWindow ==
    (transfer.gate = DefaultGate /\ nested.depth > 0) => nested.at \notin SwapWindow

\* the value saved for a field of cpu::State by the transfer being served: the
\* register at the interruption, the slot the CPU pushed, or what the stub pushed
SavedFor(f) ==
    CASE f \in Gprs -> interrupted.regs[f]
      [] f = "address" -> CodeAddr("stub", IF transfer.has_code THEN 3 ELSE 4)
      [] f = "number" -> OfNat(transfer.vector)
      [] f = "code" -> OfNat(IF transfer.has_code THEN transfer.code ELSE transfer.err)
      [] f = "rip" -> interrupted.cpu.rip
      [] f = "cs" -> interrupted.cpu.cs
      [] f = "rflags" -> Rflags(interrupted.cpu)
      [] f = "rsp" -> interrupted.regs["rsp"]
      [] f = "ss" -> interrupted.cpu.ss

\* C12: the pointer interrupt_enter hands to the handler addresses a record laid
\* out as cpu::State: every field read through it is the value saved for that
\* register or hardware-pushed slot; and a handler write to State.rip is the
\* instruction pointer at which interrupt_exit's iretq resumes.
C12_StateLayout ==
    /\ pc.fn = "handler" =>
          \A i \in DOMAIN StateFields :
              mem[FieldSlot(regs["rdi"], StateFields[i])] = SavedFor(StateFields[i])
    /\ (pc.fn = "resumed" /\ handled.wrote_rip) => cpu.rip = NewRip

\* the slot in which the CPU pushed rip when it delivered the first transfer:
\* five slots below the aligned top of the stack it used
HwRipSlot ==
    LET base == IF interrupted.cpu.cs = UserCs THEN StackTop ELSE interrupted.regs["rsp"]
    IN  Sub64(And64(base, Not64(OfNat(15))), OfNat(8 * 5))

\* the iretq of interrupt_exit is next, after a handler that left the frame as
\* it found it
AtIretqUnmodified ==
    /\ pc = At("interrupt_exit", 24)
    /\ handled.ran /\ ~handled.wrote_rip
    /\ nested.depth = 0

\* C13: interrupt_exit is the inverse of interrupt_enter: if the handler leaves
\* the frame unmodified, then at the iretq every general-purpose register holds
\* the value it had at the interruption and the stack pointer addresses the
\* hardware-pushed rip (return address, vector number and fault code discarded),
\* for both stub variants.
C13_ExitInvertsEnter ==
    AtIretqUnmodified =>
        /\ \A r \in Gprs : regs[r] = interrupted.regs[r]
        /\ regs["rsp"] = HwRipSlot
        /\ mem[regs["rsp"]] = interrupted.cpu.rip

\* C13 witness: the iretq is reached for a fault of user code whose code the CPU
\* pushed, after a handler that used the scratch registers
C13_Witness ==
    /\ AtIretqUnmodified
    /\ handled.clobber
    /\ transfer.has_code
    /\ interrupted.cpu.cs = UserCs

\* the iretq of interrupt_exit, for the first transfer
AtIretq == pc = At("interrupt_exit", 24) /\ nested.depth = 0

\* C27: the FS base (MSR 0xC0000100) is saved by interrupt_enter and restored by
\* interrupt_exit: whatever the interrupted registers hold, the 64-bit FS base
\* at the iretq is the FS base at the interruption, and the trampolines write
\* no other model-specific register (the two GS bases hold the interrupted
\* values, swapped or not).
C27_FsBaseRestored ==
    /\ AtIretq => msr["FS_BASE"] = interrupted.msr["FS_BASE"]
    /\ {msr["GS_BASE"], msr["KERNEL_GS_BASE"]}
          = {interrupted.msr["GS_BASE"], interrupted.msr["KERNEL_GS_BASE"]}

\* C29: swapgs is balanced over one transfer, from kernel or user code, for
\* any vector and fault code, the handler leaving the saved cs alone:
\* interrupt_enter executes swapgs iff interrupt_exit does, the kernel GS base
\* (the per-core base) is the active one while the handler runs, and the
\* active GS base at the iretq is the one of the interruption.
C29_SwapsBalanced ==
    /\ pc.fn = "handler" => msr["GS_BASE"] = PerCoreBase
    /\ AtIretq =>
          /\ (swaps.enter = 1) <=> (swaps.exit = 1)
          /\ msr["GS_BASE"] = interrupted.msr["GS_BASE"]

----------------------------------------------------------------------------
(* cpu.rs: switch(from, to), run by two kernel contexts A and B.  The      *)
(* memory is an arena holding the two State objects, the stacks and the    *)
(* areas the first word of each State points to.                           *)

\* the calls of switch a run makes
MaxSwitch == 2

ArenaSlots == 250
ArenaBase == U64(\hFFFF, \h8000, \h0070, \h0000)
Arena(k) == Add64(ArenaBase, OfNat(8 * k))

\* the State objects (23 words each)
StatePtr(c) == IF c = "A" THEN Arena(0) ELSE Arena(23)
\* B was suspended before: its frame, and the stack pointer it had
FrameB == Arena(80)
StackB == Arena(120)
\* an area set aside for A's context, and A's stack and frame pointer at its call
SaveTopA == Arena(160)
StackA == Arena(220)
FrameA == Arena(222)

Other(c) == IF c = "A" THEN "B" ELSE "A"

\* the registers context B had when it was suspended
RegValueB(r) == U64(\hB000 + RegIndex(r), \hB100, \hB200, RegIndex(r))

\* the frame of a suspended context as the restore path of switch reads it,
\* lowest address first: preserved and scratch registers, three padding slots,
\* rip, cs, rflags, rsp, ss
SuspendedB(c) ==
    << RegValueB("rbp"), RegValueB("rbx"), RegValueB("r12"), RegValueB("r13"),
       RegValueB("r14"), RegValueB("r15"),
       RegValueB("rax"), RegValueB("rcx"), RegValueB("rdx"), RegValueB("rsi"),
       RegValueB("rdi"), RegValueB("r8"), RegValueB("r9"), RegValueB("r10"),
       RegValueB("r11"),
       Zero64, Zero64, Zero64,
       CodeAddr("switch", SwitchEnd), KernelCs, Rflags(c), StackB, Zero64 >>

\* A runs and is about to call switch(&mut a, &b).  The first word of a (its
\* rbp field) is the top of the area set aside for A, or A's frame pointer (a
\* State filled from A's registers); the first word of b addresses B's frame.
SwitchAt(ifl, own_rbp, from_reg, to_reg) ==
    /\ pc = At("thread", 0)
    /\ regs = [r \in Gprs \cup {"rsp"} |->
                 IF r = "rsp" THEN StackA
                 ELSE IF r = "rbp" THEN FrameA
                 ELSE RegValue(r)]
    /\ cpu = [cs |-> KernelCs, ss |-> Zero64, rip |-> Zero64,
              IFlag |-> ifl, DFlag |-> FALSE, ZFlag |-> FALSE]
    /\ mem = [a \in { Arena(k) : k \in 0..(ArenaSlots - 1) } |->
                 IF a = StatePtr("A") THEN (IF own_rbp THEN FrameA ELSE SaveTopA)
                 ELSE IF a = StatePtr("B") THEN FrameB
                 ELSE IF \E k \in 1..23 : a = Add64(FrameB, OfNat(8 * (k - 1)))
                      THEN SuspendedB(cpu)[CHOOSE k \in 1..23 : a = Add64(FrameB, OfNat(8 * (k - 1)))]
                 ELSE Zero64]
    /\ msr = [m \in MsrNames |-> IF m = "GS_BASE" THEN PerCoreBase ELSE Zero64]
    /\ transfer = [vector |-> 3, has_code |-> FALSE, code |-> 0, err |-> 0,
                   gate |-> FlagsPresent(FlagsNew, TRUE)]
    /\ interrupted = [regs |-> regs, msr |-> msr, cpu |-> cpu]
    /\ swaps = [enter |-> 0, exit |-> 0]
    /\ nested = [depth |-> 0, at |-> At("interrupted", 0)]
    /\ handled = [ran |-> FALSE, clobber |-> FALSE, wrote_rip |-> FALSE]
    /\ sw = [from_reg |-> from_reg, to_reg |-> to_reg, calls |-> 0, current |-> "A",
             caller |-> [regs |-> regs, cpu |-> cpu]]

\* the operand registers: the argument registers, or two others the build chose
SwitchStart ==
    \E ifl \in BOOLEAN, own_rbp \in BOOLEAN,
       ops \in { <<"rdi", "rsi">>, <<"rcx", "rdx">>, <<"r8", "rbx">> } :
        SwitchAt(ifl, own_rbp, ops[1], ops[2])

\* the running context calls switch(&mut its State, &the other State): the
\* operand registers hold the two addresses and the asm block is entered
CallSwitch ==
    /\ pc = At("thread", 0) \/ pc = At("switch", SwitchEnd)
    /\ sw.calls < MaxSwitch
    /\ regs' = [regs EXCEPT ![sw.from_reg] = StatePtr(sw.current),
                            ![sw.to_reg] = StatePtr(Other(sw.current))]
    /\ sw' = [sw EXCEPT !.calls = @ + 1,
                        !.current = Other(sw.current),
                        !.caller = IF sw.calls = 0 THEN [regs |-> regs', cpu |-> cpu] ELSE @]
    /\ pc' = At("switch", 1)
    /\ UNCHANGED <<mem, msr, cpu, transfer, interrupted, swaps, nested, handled>>
    /\ OnlyInt

SwitchNext ==
    \/ CallSwitch
    \/ ExecMovReg
    \/ ExecMovLoad
    \/ ExecPush
    \/ ExecPushImm
    \/ ExecPushfq
    \/ ExecPop
    \/ ExecAddRsp
    \/ ExecIretq

\* the registers a call preserves
PreservedRegs == {"rbx", "rbp", "r12", "r13", "r14", "r15"}

\* the size of the frame switch pushes: a cpu::State
StateSize == 8 * 23

\* C14: switch(from, to) pushes on the current stack a frame laid out as a
\* hardware transfer, stores the resulting stack pointer into from without
\* modifying to, and resumes the stack pointer loaded from to; so after
\* switch(A, B) a later switch(B, A) returns to A's caller right after its call,
\* with its preserved registers, flags and stack pointer restored.
C14_SwitchRoundTrip ==
    /\ (sw.calls = 1 /\ pc = At("switch", 26)) =>
          regs["rsp"] = Sub64(sw.caller.regs["rsp"], OfNat(StateSize))
    /\ (sw.calls = 1 /\ pc = At("switch", 27)) =>
          /\ mem[StatePtr("A")] = Sub64(sw.caller.regs["rsp"], OfNat(StateSize))
          /\ mem[StatePtr("B")] = FrameB
    /\ (sw.calls = 2 /\ pc.fn \notin {"switch"}) => FALSE
    /\ (sw.calls = 2 /\ pc = At("switch", SwitchEnd)) =>
          /\ \A r \in PreservedRegs : regs[r] = sw.caller.regs[r]
          /\ regs["rsp"] = sw.caller.regs["rsp"]
          /\ cpu.IFlag = sw.caller.cpu.IFlag

----------------------------------------------------------------------------
(* paging.rs: PageEntry, a u64 holding a physical address and flags.       *)

\* PageEntry::ADDR_MASK
AddrMask == U64(\h000F, \hFFFF, \hFFFF, \hF000)

\* PageEntryFlags: the bits of some flags, and the bits of all of them (bits
\* 0-11 and 52-63), which from_bits_truncate keeps
FlagPresent == OfNat(1)
FlagWritable == OfNat(2)
FlagBit11 == OfNat(2048)
FlagBit52 == U64(\h0010, 0, 0, 0)
FlagNoExecute == U64(\h8000, 0, 0, 0)
FlagsAll == U64(\hFFF0, 0, 0, \h0FFF)
FromBitsTruncate(bits) == And64(bits, FlagsAll)
Contains(flags, other) == And64(flags, other) = other

\* mutant of set_flags: the flags are or-ed into the entry
EntrySetFlags_Or(e, flags) == Or64(e, flags)

\* mutant of address: the mask keeps bits 12-47 only
EntryAddress_Mask48(e) ==
    IF Contains(FromBitsTruncate(e), FlagPresent)
    THEN [some |-> TRUE, addr |-> And64(e, U64(0, \hFFFF, \hFFFF, \hF000))]
    ELSE [some |-> FALSE, addr |-> Zero64]

\* PageEntry::EMPTY
EntryEmpty == Zero64

\* PageEntry::new: the entry, or a panic
EntryNew(addr, flags) ==
    IF ~IsPageAligned(addr) THEN Panic
    ELSE Ok(Or64(And64(addr, AddrMask), flags))

\* PageEntry::set_address: the entry after the call, or a panic
EntrySetAddress(e, addr) ==
    IF ~IsPageAligned(addr) THEN Panic
    ELSE Ok(Or64(And64(e, Not64(AddrMask)), And64(addr, AddrMask)))

\* PageEntry::set_flags, clear_flags, add_flags, clear
EntrySetFlags(e, flags) == Or64(And64(e, AddrMask), flags)
EntryClearFlags(e, flags) == And64(e, Not64(flags))
EntryAddFlags(e, flags) == Or64(e, flags)
EntryClear(e) == Zero64

\* PageEntry::flags, is_present
EntryFlags(e) == FromBitsTruncate(e)
EntryIsPresent(e) == Contains(EntryFlags(e), FlagPresent)

\* PageEntry::address: Some(Physical::new(..)) or None
EntryAddress(e) ==
    IF Contains(EntryFlags(e), FlagPresent)
    THEN [some |-> TRUE, addr |-> PhysicalNew(And64(e, AddrMask)).out]
    ELSE [some |-> FALSE, addr |-> Zero64]

\* Physical addresses handed to the entry: page-aligned ones up to the highest
\* page, and ones with low bits set
PageAddrs ==
    { Zero64, OfNat(\h1000), U64(0, \h0012, \h3456, \h7000),
      U64(\h000F, \hFFFF, \hFFFF, \hF000),
      OfNat(\h0800), OfNat(\h1001), U64(\h000F, \hFFFF, \hFFFF, \hFFFF) }

\* flag sets handed to the entry
FlagSets ==
    { Zero64, FlagPresent, Or64(FlagPresent, FlagWritable),
      Or64(FlagWritable, Or64(FlagBit52, FlagNoExecute)),
      Or64(FlagPresent, Or64(FlagBit11, FlagNoExecute)),
      FlagsAll }

EntryCall(op, addr, flags, outcome, before) ==
    [op |-> op, addr |-> addr, flags |-> flags, outcome |-> outcome, before |-> before]
EntryIdle == EntryCall("idle", Zero64, Zero64, "ok", Zero64)

EntryInit ==
    /\ pte = EntryEmpty
    /\ elast = EntryIdle
    /\ want = [addr |-> Zero64, flags |-> Zero64]

CallEntryNew ==
    \E addr \in PageAddrs, flags \in FlagSets :
        LET r == EntryNew(addr, flags)
        IN  /\ elast = EntryIdle
            /\ pte' = IF r.outcome = "ok" THEN r.out ELSE pte
            /\ want' = IF r.outcome = "ok" THEN [addr |-> addr, flags |-> flags] ELSE want
            /\ elast' = EntryCall("new", addr, flags, r.outcome, pte)
            /\ UNCHANGED <<ptable, tlast>>
            /\ OnlyPage

CallEntrySetAddress ==
    \E addr \in PageAddrs :
        LET r == EntrySetAddress(pte, addr)
        IN  /\ elast = EntryIdle
            /\ pte' = IF r.outcome = "ok" THEN r.out ELSE pte
            /\ want' = IF r.outcome = "ok" THEN [want EXCEPT !.addr = addr] ELSE want
            /\ elast' = EntryCall("set_address", addr, Zero64, r.outcome, pte)
            /\ UNCHANGED <<ptable, tlast>>
            /\ OnlyPage

CallEntrySetFlags ==
    \E flags \in FlagSets :
        /\ elast = EntryIdle
        /\ pte' = EntrySetFlags(pte, flags)
        /\ want' = [want EXCEPT !.flags = flags]
        /\ elast' = EntryCall("set_flags", Zero64, flags, "ok", pte)
        /\ UNCHANGED <<ptable, tlast>>
        /\ OnlyPage

CallEntryAddFlags ==
    \E flags \in FlagSets :
        /\ elast = EntryIdle
        /\ pte' = EntryAddFlags(pte, flags)
        /\ want' = [want EXCEPT !.flags = Or64(@, flags)]
        /\ elast' = EntryCall("add_flags", Zero64, flags, "ok", pte)
        /\ UNCHANGED <<ptable, tlast>>
        /\ OnlyPage

CallEntryClearFlags ==
    \E flags \in FlagSets :
        /\ elast = EntryIdle
        /\ pte' = EntryClearFlags(pte, flags)
        /\ want' = [want EXCEPT !.flags = And64(@, Not64(flags))]
        /\ elast' = EntryCall("clear_flags", Zero64, flags, "ok", pte)
        /\ UNCHANGED <<ptable, tlast>>
        /\ OnlyPage

CallEntryClear ==
    /\ elast = EntryIdle
    /\ pte' = EntryClear(pte)
    /\ want' = [addr |-> Zero64, flags |-> Zero64]
    /\ elast' = EntryCall("clear", Zero64, Zero64, "ok", pte)
    /\ UNCHANGED <<ptable, tlast>>
    /\ OnlyPage

EntryReturn ==
    /\ elast # EntryIdle
    /\ elast' = EntryIdle
    /\ UNCHANGED <<pte, want, ptable, tlast>>
    /\ OnlyPage

EntryNext ==
    \/ CallEntryNew
    \/ CallEntrySetAddress
    \/ CallEntrySetFlags
    \/ CallEntryAddFlags
    \/ CallEntryClearFlags
    \/ CallEntryClear
    \/ EntryReturn

\* the low 12 bits of a word are zero
PageAligned(x) == x[4] % 4096 = 0

\* C15: round trip: for a page-aligned Physical address p and a flag set f,
\* PageEntry::new(p, f).address() is Some(p) when f contains PRESENT and None
\* when it does not, is_present() is true exactly when address() is Some, and
\* flags() is f.
C15_EntryRoundTrip ==
    (elast.op = "new" /\ PageAligned(elast.addr)) =>
        /\ elast.outcome = "ok"
        /\ EntryAddress(pte) =
              IF Contains(elast.flags, FlagPresent)
              THEN [some |-> TRUE, addr |-> elast.addr]
              ELSE [some |-> FALSE, addr |-> Zero64]
        /\ EntryIsPresent(pte) = EntryAddress(pte).some
        /\ EntryFlags(pte) = elast.flags

\* C15 witness: an entry was built for the highest page with PRESENT and other flags
C15_Witness ==
    /\ elast.op = "new"
    /\ elast.addr = U64(\h000F, \hFFFF, \hFFFF, \hF000)
    /\ elast.flags = Or64(FlagPresent, Or64(FlagBit11, FlagNoExecute))
    /\ EntryAddress(pte).some

\* C16: address and flag bits never cross-contaminate: after any sequence of
\* set_address, set_flags, add_flags and clear_flags the address bits (12-51)
\* are the address last set and flags() is the result of the flag operations in
\* order; a flag operation leaves the address bits, and set_address the flags,
\* as they were.
C16_NoCrossContamination ==
    /\ And64(pte, AddrMask) = want.addr
    /\ EntryFlags(pte) = want.flags
    /\ elast.op \in {"set_flags", "add_flags", "clear_flags"} =>
          And64(pte, AddrMask) = And64(elast.before, AddrMask)
    /\ (elast.op = "set_address" /\ elast.outcome = "ok") =>
          EntryFlags(pte) = EntryFlags(elast.before)

\* C16 witness: flags were replaced on an entry that held an address and other flags
C16_Witness ==
    /\ elast.op = "set_flags"
    /\ And64(elast.before, AddrMask) = U64(0, \h0012, \h3456, \h7000)
    /\ EntryFlags(elast.before) = FlagsAll
    /\ elast.flags = FlagPresent

\* C17: PageEntry::new and set_address abort exactly when the address is not
\* page-aligned, and an aborted set_address leaves the entry unchanged.
C17_UnalignedAborts ==
    elast.op \in {"new", "set_address"} =>
        /\ (elast.outcome = "panic") <=> ~PageAligned(elast.addr)
        /\ elast.outcome = "panic" => pte = elast.before

\* C17 witness: set_address aborted on an address with only bit 11 set, on an
\* entry that held something
C17_Witness ==
    /\ elast.op = "set_address"
    /\ elast.addr = OfNat(\h0800)
    /\ elast.outcome = "panic"
    /\ pte # Zero64

----------------------------------------------------------------------------
(* paging.rs: PageTable, 512 entries.                                      *)

\* PageTable::COUNT
TableCount == 512
TableIndexes == 0 .. TableCount - 1

\* PageTable::new
TableNew == [i \in TableIndexes |-> EntryEmpty]

\* mutant of clear: the loop stops before the last entry
TableClear_SkipLast(t) ==
    [i \in TableIndexes |-> IF i = TableCount - 1 THEN t[i] ELSE EntryClear(t[i])]

\* PageTable::clear
TableClear(t) == [i \in TableIndexes |-> EntryClear(t[i])]

\* PageTable::is_empty
TableIsEmpty(t) == \A i \in TableIndexes : EntryIsPresent(t[i])

\* IndexMut<usize>::index_mut followed by an assignment: the table, or a panic
TableStore(t, index, e) ==
    IF ~(index < TableCount) THEN Panic
    ELSE Ok([t EXCEPT ![index] = e])

\* the indexes and entries stored: first, second and last slot, one past the
\* end; an empty entry, a present one, one with an address and no PRESENT
StoreIndexes == {0, 1, TableCount - 1, TableCount}
StoreEntries ==
    { EntryEmpty,
      EntryNew(OfNat(\h1000), Or64(FlagPresent, FlagWritable)).out,
      EntryNew(U64(0, \h0012, \h3456, \h7000), FlagWritable).out }

TableCall(op, index, outcome, flag, before) ==
    [op |-> op, index |-> index, outcome |-> outcome, flag |-> flag, before |-> before]
TableIdle == TableCall("idle", 0, "ok", FALSE, TableNew)

TableInit ==
    /\ ptable = TableNew
    /\ tlast = TableIdle

PageInit == EntryInit /\ TableInit

CallTableNew ==
    /\ tlast = TableIdle
    /\ ptable' = TableNew
    /\ tlast' = TableCall("new", 0, "ok", FALSE, ptable)
    /\ UNCHANGED <<pte, elast, want>>
    /\ OnlyPage

CallTableStore ==
    \E index \in StoreIndexes, e \in StoreEntries :
        LET r == TableStore(ptable, index, e)
        IN  /\ tlast = TableIdle
            /\ ptable' = IF r.outcome = "ok" THEN r.out ELSE ptable
            /\ tlast' = TableCall("index_mut", index, r.outcome, FALSE, ptable)
            /\ UNCHANGED <<pte, elast, want>>
            /\ OnlyPage

\* a caller's loop over iter_mut that stores one entry in every slot
CallTableIterMut ==
    \E e \in StoreEntries :
        /\ tlast = TableIdle
        /\ ptable' = [i \in TableIndexes |-> e]
        /\ tlast' = TableCall("iter_mut", 0, "ok", FALSE, ptable)
        /\ UNCHANGED <<pte, elast, want>>
        /\ OnlyPage

CallTableClear ==
    /\ tlast = TableIdle
    /\ ptable' = TableClear(ptable)
    /\ tlast' = TableCall("clear", 0, "ok", FALSE, ptable)
    /\ UNCHANGED <<pte, elast, want>>
    /\ OnlyPage

CallTableIsEmpty ==
    /\ tlast = TableIdle
    /\ tlast' = TableCall("is_empty", 0, "ok", TableIsEmpty(ptable), ptable)
    /\ UNCHANGED <<ptable, pte, elast, want>>
    /\ OnlyPage

TableReturn ==
    /\ tlast # TableIdle
    /\ tlast' = TableIdle
    /\ UNCHANGED <<ptable, pte, elast, want>>
    /\ OnlyPage

TableNext ==
    \/ CallTableNew
    \/ CallTableStore
    \/ CallTableIterMut
    \/ CallTableClear
    \/ CallTableIsEmpty
    \/ TableReturn

\* C18: PageTable::clear leaves all 512 entries empty (raw value 0, not
\* present, address() None) whatever they held, and clearing again gives the
\* same table, which is PageTable::new().
C18_ClearEmptiesAll ==
    tlast.op = "clear" =>
        /\ \A i \in TableIndexes :
              /\ ptable[i] = Zero64
              /\ ~EntryIsPresent(ptable[i])
              /\ ~EntryAddress(ptable[i]).some
        /\ TableClear(ptable) = ptable
        /\ ptable = TableNew

\* C18 witness: a table whose first and last entries held something was cleared
C18_Witness ==
    /\ tlast.op = "clear"
    /\ EntryIsPresent(tlast.before[TableCount - 1])
    /\ tlast.before[0] # Zero64

\* C19: PageTable::is_empty returns true exactly when no entry of the table is
\* present: true for PageTable::new() and after clear(), false as soon as one
\* entry is present.
C19_IsEmptyIffNonePresent ==
    tlast.op = "is_empty" =>
        (tlast.flag <=> \A i \in TableIndexes : ~EntryIsPresent(ptable[i]))

----------------------------------------------------------------------------
(* address.rs: the page helpers against the generic alignment methods.     *)

\* the page size the helpers are written for, as an alignment
PageAlign == OfNat(\h1000)

\* C20: for every valid Virtual and Physical address a, page_align_down(a)
\* equals align_down(a, 4096) (so it returns a itself when a is page-aligned),
\* page_align_up(a) equals align_up(a, 4096), and is_page_aligned(a) equals
\* is_aligned(a, 4096).
C20_PageHelpersAreAlign4096 ==
    Valid(last.ty, last.recv) =>
        /\ last.op = "page_align_down" =>
              LET r == AlignDown(last.ty, last.recv, PageAlign)
              IN  /\ last.outcome = r.outcome
                  /\ last.out = r.out
                  /\ IsPageAligned(last.recv) => last.out = last.recv
        /\ last.op = "page_align_up" =>
              LET r == AlignUp(last.ty, last.recv, PageAlign)
              IN  last.outcome = r.outcome /\ last.out = r.out
        /\ last.op = "is_page_aligned" =>
              LET r == IsAligned(last.recv, PageAlign)
              IN  last.outcome = r.outcome /\ last.flag = r.flag

----------------------------------------------------------------------------
(* address.rs: when the alignment methods abort.                           *)

\* x has exactly one bit set
OneBit(x) == Cardinality({k \in 0..63 : Bit(x, k) = 1}) = 1

\* a + b does not fit 64 bits: a is above 2^64 - 1 - b
Overflows(a, b) == Lt64(Not64(b), a)

\* C26: align_up, align_down and is_aligned abort for every alignment that is
\* not a power of two, 0 included; align_up and page_align_up abort whenever
\* address + (alignment - 1) overflows 64 bits; for a power of two align_down
\* and is_aligned never abort (and align_up aborts on the overflow only).
C26_AlignAborts ==
    /\ last.op \in {"align_up", "align_down", "is_aligned"} =>
          /\ ~OneBit(last.arg) => last.outcome = "panic"
          /\ (OneBit(last.arg) /\ last.op # "align_up") => last.outcome = "ok"
          /\ (OneBit(last.arg) /\ last.op = "align_up") =>
                (last.outcome = "panic" <=> Overflows(last.recv, Pred64(last.arg)))
    /\ last.op = "page_align_up" =>
          (last.outcome = "panic" <=> Overflows(last.recv, OfNat(\hFFF)))

\* C26 witness: align_up to 4 KiB of an address in the last page aborted
C26_Witness ==
    /\ last.op = "align_up"
    /\ last.recv = U64(\hFFFF, \hFFFF, \hFFFF, \hF001)
    /\ last.arg = OfNat(\h1000)
    /\ last.outcome = "panic"

----------------------------------------------------------------------------
(* address.rs: the page-table indexes of a virtual address.                *)

\* bits lo .. lo + n - 1 of x are the low n bits of out, and out has no other bit
FieldOf(out, x, lo, n) ==
    /\ \A k \in 0 .. n - 1 : Bit(out, k) = Bit(x, lo + k)
    /\ \A k \in n .. 63 : Bit(out, k) = 0

\* the level each named offset stands for
LevelOf ==
    [pt_offset |-> 1, pd_offset |-> 2, pdpt_offset |-> 3, pml4_offset |-> 4, pml5_offset |-> 5]

\* C21: for every canonical Virtual address a and level in 1..5,
\* page_index(level) is (a >> (12 + 9*(level-1))) & 0x1FF; pt_offset, pd_offset,
\* pdpt_offset, pml4_offset and pml5_offset are levels 1 to 5; page_offset is
\* a & 0xFFF; page_index aborts for every level outside 1..5.
C21_PageIndex ==
    (last.ty = "Virtual" /\ Canonical(last.recv)) =>
        /\ last.op = "page_index" =>
              IF last.arg[4] \in 1 .. 5
              THEN /\ last.outcome = "ok"
                   /\ FieldOf(last.out, last.recv, 12 + 9 * (last.arg[4] - 1), 9)
              ELSE last.outcome = "panic"
        /\ last.op \in DOMAIN LevelOf =>
              /\ last.outcome = "ok"
              /\ FieldOf(last.out, last.recv, 12 + 9 * (LevelOf[last.op] - 1), 9)
        /\ last.op = "page_offset" =>
              /\ last.outcome = "ok"
              /\ FieldOf(last.out, last.recv, 0, 12)

\* C21 witness: the fifth-level index of 0xFFFF_8000_DEAF_BEEF was taken and
\* is 0x1FF
C21_Witness ==
    /\ last.op = "page_index"
    /\ last.recv = U64(\hFFFF, \h8000, \hDEAF, \hBEEF)
    /\ last.arg = OfNat(5)
    /\ last.out = OfNat(\h1FF)

----------------------------------------------------------------------------
(* paging.rs: Level, the four levels of the paging hierarchy.              *)

\* enum Level and its discriminants, which give the derived order
Levels == {"PageTable", "PageDirectory", "PageTableDirectoryPointer", "PageMapLevel4"}
LevelValue ==
    [PageTable |-> 1, PageDirectory |-> 2, PageTableDirectoryPointer |-> 3, PageMapLevel4 |-> 4]

\* Option<Level>
LevelSome(l) == [some |-> TRUE, level |-> l]
LevelNone == [some |-> FALSE, level |-> ""]

\* mutant of next: the walk wraps around at the last level
LevelNext_Wrap(l) ==
    CASE l = "PageTable" -> LevelSome("PageMapLevel4")
      [] l = "PageDirectory" -> LevelSome("PageTable")
      [] l = "PageTableDirectoryPointer" -> LevelSome("PageDirectory")
      [] l = "PageMapLevel4" -> LevelSome("PageTableDirectoryPointer")

\* Level::prev
LevelPrev(l) ==
    CASE l = "PageTable" -> LevelSome("PageDirectory")
      [] l = "PageDirectory" -> LevelSome("PageTableDirectoryPointer")
      [] l = "PageTableDirectoryPointer" -> LevelSome("PageMapLevel4")
      [] l = "PageMapLevel4" -> LevelNone

\* Level::next
LevelNext(l) ==
    CASE l = "PageTable" -> LevelNone
      [] l = "PageDirectory" -> LevelSome("PageTable")
      [] l = "PageTableDirectoryPointer" -> LevelSome("PageDirectory")
      [] l = "PageMapLevel4" -> LevelSome("PageTableDirectoryPointer")

\* the number of next / prev calls a caller makes
MaxWalk == 6

LevelCall(op, of, result) == [op |-> op, of |-> of, result |-> result]
LevelIdleCall == LevelCall("idle", "", LevelNone)
NoRun == [dir |-> "", count |-> 0]

LevelIdle ==
    /\ current = "PageMapLevel4"
    /\ run = NoRun
    /\ nsteps = 0
    /\ lvlast = LevelIdleCall

LevelStart ==
    /\ current \in Levels
    /\ run = NoRun
    /\ nsteps = 0
    /\ lvlast = LevelIdleCall

\* a step of a walk: the caller moves to the level returned, and stays where
\* it is on None
LevelStep(op, r) ==
    /\ lvlast = LevelIdleCall
    /\ nsteps < MaxWalk
    /\ current' = IF r.some THEN r.level ELSE current
    /\ run' = IF ~r.some THEN run
              ELSE [dir |-> op, count |-> IF run.dir = op THEN run.count + 1 ELSE 1]
    /\ nsteps' = nsteps + 1
    /\ lvlast' = LevelCall(op, current, r)
    /\ OnlyLevel

CallLevelNext == LevelStep("next", LevelNext(current))
CallLevelPrev == LevelStep("prev", LevelPrev(current))

LevelReturn ==
    /\ lvlast # LevelIdleCall
    /\ lvlast' = LevelIdleCall
    /\ UNCHANGED <<current, run, nsteps>>
    /\ OnlyLevel

LevelNextStep ==
    \/ CallLevelNext
    \/ CallLevelPrev
    \/ LevelReturn

\* the level with discriminant v, or None outside 1..4
LevelAt(v) ==
    IF \E l \in Levels : LevelValue[l] = v
    THEN LevelSome(CHOOSE l \in Levels : LevelValue[l] = v)
    ELSE LevelNone

\* C22: next goes PageMapLevel4 -> PageTableDirectoryPointer -> PageDirectory
\* -> PageTable -> None and prev the opposite way, None only at PageMapLevel4;
\* next(l) = Some(m) iff prev(m) = Some(l); next strictly decreases and prev
\* strictly increases the level, and no walk in one direction takes more than
\* 3 steps.
C22_LevelWalk ==
    /\ \A l, m \in Levels : (LevelNext(l) = LevelSome(m)) <=> (LevelPrev(m) = LevelSome(l))
    /\ lvlast.op = "next" =>
          /\ lvlast.result = LevelAt(LevelValue[lvlast.of] - 1)
          /\ lvlast.result.some => LevelValue[lvlast.result.level] < LevelValue[lvlast.of]
    /\ lvlast.op = "prev" =>
          /\ lvlast.result = LevelAt(LevelValue[lvlast.of] + 1)
          /\ lvlast.result.some => LevelValue[lvlast.result.level] > LevelValue[lvlast.of]
          /\ ~lvlast.result.some <=> lvlast.of = "PageMapLevel4"
    /\ run.count <= 3

\* C22 witness: a walk went down three times from PageMapLevel4 and next then
\* returned None at PageTable
C22_Witness ==
    /\ lvlast.op = "next"
    /\ lvlast.of = "PageTable"
    /\ ~lvlast.result.some
    /\ run = [dir |-> "next", count |-> 3]

----------------------------------------------------------------------------
(* irq.rs: the interrupt flag and without.                                 *)

\* calls of without nested in one another
MaxDepth == 2

\* a call of without in progress: where it stands (at "enabled" before
\* `let irq = enabled()`, "disable" before the first `if irq`, "body" while f
\* runs, "enable" before the second `if irq`, "ret" before it returns), its
\* local irq, and as history the interrupt flag when it was called and whether
\* f called enable, disable or restore itself
Frame(at, irq, entered, touched) ==
    [at |-> at, irq |-> irq, entered |-> entered, touched |-> touched]
Top == wstack[Len(wstack)]
SetTop(f) == [wstack EXCEPT ![Len(wstack)] = f]

\* code of the caller's runs: outside every without, or inside the innermost f
Running == IF wstack = <<>> THEN TRUE ELSE Top.at = "body"

NoReturn == [returned |-> FALSE, depth |-> 0, entered |-> FALSE, left |-> FALSE, touched |-> FALSE]

IrqIdle ==
    /\ interrupts = FALSE
    /\ wstack = <<>>
    /\ wlast = NoReturn

IrqStart ==
    /\ interrupts \in BOOLEAN
    /\ wstack = <<>>
    /\ wlast = NoReturn

\* irq::enabled: bit 9 of RFLAGS
Enabled == interrupts

\* every call in progress learns that its f changed the flag itself
Touch ==
    IF wstack = <<>> THEN <<>>
    ELSE [i \in 1..Len(wstack) |-> [wstack[i] EXCEPT !.touched = TRUE]]

\* irq::enable (sti), irq::disable (cli), irq::restore
CallEnable ==
    /\ Running
    /\ interrupts' = TRUE
    /\ wstack' = Touch
    /\ UNCHANGED wlast
    /\ OnlyIrq

CallDisable ==
    /\ Running
    /\ interrupts' = FALSE
    /\ wstack' = Touch
    /\ UNCHANGED wlast
    /\ OnlyIrq

CallRestore ==
    \E state \in BOOLEAN :
        /\ Running
        /\ interrupts' = state
        /\ wstack' = Touch
        /\ UNCHANGED wlast
        /\ OnlyIrq

\* irq::without is called
CallWithout ==
    /\ Running
    /\ Len(wstack) < MaxDepth
    /\ wstack' = Append(wstack, Frame("enabled", FALSE, interrupts, FALSE))
    /\ UNCHANGED <<interrupts, wlast>>
    /\ OnlyIrq

\* let irq = enabled();
StepEnabled ==
    /\ wstack # <<>>
    /\ Top.at = "enabled"
    /\ wstack' = SetTop([Top EXCEPT !.at = "disable", !.irq = Enabled])
    /\ UNCHANGED <<interrupts, wlast>>
    /\ OnlyIrq

\* if irq { disable(); } and f is called
StepDisable ==
    /\ wstack # <<>>
    /\ Top.at = "disable"
    /\ interrupts' = IF Top.irq THEN FALSE ELSE interrupts
    /\ wstack' = SetTop([Top EXCEPT !.at = "body"])
    /\ UNCHANGED wlast
    /\ OnlyIrq

\* f returns
BodyReturn ==
    /\ wstack # <<>>
    /\ Top.at = "body"
    /\ wstack' = SetTop([Top EXCEPT !.at = "enable"])
    /\ UNCHANGED <<interrupts, wlast>>
    /\ OnlyIrq

\* mutant of the second test: interrupts are enabled whatever irq is
StepEnable_Always ==
    /\ wstack # <<>>
    /\ Top.at = "enable"
    /\ interrupts' = TRUE
    /\ wstack' = SetTop([Top EXCEPT !.at = "ret"])
    /\ UNCHANGED wlast
    /\ OnlyIrq

\* if irq { enable(); }
StepEnable ==
    /\ wstack # <<>>
    /\ Top.at = "enable"
    /\ interrupts' = IF Top.irq THEN TRUE ELSE interrupts
    /\ wstack' = SetTop([Top EXCEPT !.at = "ret"])
    /\ UNCHANGED wlast
    /\ OnlyIrq

\* without returns
WithoutReturn ==
    /\ wstack # <<>>
    /\ Top.at = "ret"
    /\ wlast' = [returned |-> TRUE, depth |-> Len(wstack), entered |-> Top.entered,
                 left |-> interrupts, touched |-> Top.touched]
    /\ wstack' = SubSeq(wstack, 1, Len(wstack) - 1)
    /\ UNCHANGED interrupts
    /\ OnlyIrq

IrqNext ==
    \/ CallEnable
    \/ CallDisable
    \/ CallRestore
    \/ CallWithout
    \/ StepEnabled
    \/ StepDisable
    \/ BodyReturn
    \/ StepEnable
    \/ WithoutReturn

\* the calls of without whose f is running or has returned, the flag not yet
\* put back
InBody == {i \in 1..Len(wstack) : wstack[i].at \in {"body", "enable"}}

----------------------------------------------------------------------------
(* The specifications: one per part of the crate, the others lying idle.   *)

AddrInit == AddrStart /\ GdtInit /\ FlagsInit /\ IdtInit /\ PageInit /\ LevelIdle /\ IrqIdle /\ IntIdle
SpecAddr == AddrInit /\ [][AddrNext]_vars

GdtTableInit == AddrIdle /\ GdtInit /\ FlagsInit /\ IdtInit /\ PageInit /\ LevelIdle /\ IrqIdle /\ IntIdle
SpecGdt == GdtTableInit /\ [][GdtNext]_vars

FlagsBuilderInit == AddrIdle /\ GdtInit /\ FlagsInit /\ IdtInit /\ PageInit /\ LevelIdle /\ IrqIdle /\ IntIdle
SpecFlags == FlagsBuilderInit /\ [][FlagsNext]_vars

IdtTableInit == AddrIdle /\ GdtInit /\ FlagsInit /\ IdtInit /\ PageInit /\ LevelIdle /\ IrqIdle /\ IntIdle
SpecIdt == IdtTableInit /\ [][IdtNext]_vars

TransferInit == AddrIdle /\ GdtInit /\ FlagsInit /\ IdtInit /\ PageInit /\ LevelIdle /\ IrqIdle /\ IntStart
SpecInt == TransferInit /\ [][IntNext]_vars

SpecNest == TransferInit /\ [][NestNext]_vars

SpecPublish == GdtTableInit /\ [][PublishNext]_vars

EntryStart == AddrIdle /\ GdtInit /\ FlagsInit /\ IdtInit /\ PageInit /\ LevelIdle /\ IrqIdle /\ IntIdle
SpecEntry == EntryStart /\ [][EntryNext]_vars

SpecTable == EntryStart /\ [][TableNext]_vars

WalkInit ==
    /\ AddrIdle /\ GdtInit /\ FlagsInit /\ IdtInit /\ PageInit /\ LevelStart /\ IrqIdle /\ IntIdle
SpecLevel == WalkInit /\ [][LevelNextStep]_vars

MaskInit ==
    /\ AddrIdle /\ GdtInit /\ FlagsInit /\ IdtInit /\ PageInit /\ LevelIdle /\ IrqStart /\ IntIdle
SpecIrq == MaskInit /\ [][IrqNext]_vars

ContextInit == AddrIdle /\ GdtInit /\ FlagsInit /\ IdtInit /\ PageInit /\ LevelIdle /\ IrqIdle /\ SwitchStart
SpecSwitch == ContextInit /\ [][SwitchNext]_vars

====
